---- MODULE Spec2Model ----
(***************************************************************************)
(* A model of zelda64.js: the Yaz0 codec, the ROM/DMA model, the inflater, *)
(* the deflater (compression worker), the ZPF patcher and the N64 header   *)
(* CRC.  Buffers are sparse: a buffer is a record [size, mem] where mem    *)
(* maps the addresses that hold a non-zero byte to that byte, so that the  *)
(* real ROM sizes and addresses are kept.                                  *)
(***************************************************************************)
EXTENDS Integers, Sequences, FiniteSets, TLC

VARIABLES yz, rs, ks, bs, cw

(***************************************************************************)
(* JavaScript values.  A typed-array read outside the array is undefined;  *)
(* the bitwise operators and the typed-array store coerce undefined to 0.  *)
(***************************************************************************)
Undef == 0 - 1

ToByte(v) == IF v = Undef THEN 0 ELSE v % 256

Min(a, b) == IF a < b THEN a ELSE b

Max(a, b) == IF a > b THEN a ELSE b

(* Sparse memory: the byte at address a. *)
Get(mem, a) == IF a \in DOMAIN mem THEN mem[a] ELSE 0

(* Sparse memory with the byte at address a set to v (zero bytes are not   *)
(* stored, so equal contents are equal values).                            *)
Put(mem, a, v) ==
    IF v # 0 THEN (a :> v) @@ mem
    ELSE IF a \in DOMAIN mem THEN [x \in DOMAIN mem \ {a} |-> mem[x]] @@ << >>
    ELSE mem

EmptyMem == [x \in {} |-> 0]

(* A Uint8Array view of len bytes at offset off of a buffer's memory.      *)
View(mem, off, len) == [mem |-> mem, off |-> off, len |-> len]

ViewGet(v, k) == IF k >= 0 /\ k < v.len THEN Get(v.mem, v.off + k) ELSE Undef

(* A typed-array store: outside the view it is silently dropped.           *)
ViewPut(v, k, b) ==
    IF k >= 0 /\ k < v.len THEN [v EXCEPT !.mem = Put(@, v.off + k, ToByte(b))]
    ELSE v

SeqView(s) == View([k \in 0..(Len(s) - 1) |-> s[k + 1]], 0, Len(s))

ViewSeq(v) == [k \in 1..v.len |-> Get(v.mem, v.off + k - 1)]

(***************************************************************************)
(* Yaz0 compressor (Yaz0Compressor).                                       *)
(***************************************************************************)
BUFFER_EXTRA_BYTES == 592

WINDOW_SIZE == 4096

MAX_MATCH == 273

(* parse32(src, offset) >>> 8: the three bytes at offset as a 24-bit hash. *)
parse32(src, offset) ==
    << ToByte(ViewGet(src, offset)), ToByte(ViewGet(src, offset + 1)),
       ToByte(ViewGet(src, offset + 2)), ToByte(ViewGet(src, offset + 3)) >>

Shr8(w) == w[1] * 65536 + w[2] * 256 + w[3]

(* The loops of the code are written as folds over an index range that    *)
(* split the range in two (first half, then second half): the iterations   *)
(* run in the code's order and a break is a flag that makes the remaining  *)
(* iterations do nothing.                                                  *)

(* The inner comparison loop of _rabinKarp, for currentSize in [lo0, hi0): *)
(* it stops at the first position where the two strings differ.            *)
matchExtend(src, i, srcPos, st0, lo0, hi0) ==
    LET loop[st \in [size : Nat, stop : BOOLEAN], lo \in Nat, hi \in Nat] ==
            CASE st.stop \/ lo >= hi -> st
              [] ~st.stop /\ hi - lo = 1 ->
                    IF ViewGet(src, i + lo) # ViewGet(src, srcPos + lo)
                    THEN [st EXCEPT !.stop = TRUE]
                    ELSE [st EXCEPT !.size = lo + 1]
              [] ~st.stop /\ hi - lo > 1 ->
                    loop[loop[st, lo, (lo + hi) \div 2], (lo + hi) \div 2, hi]
    IN  loop[st0, lo0, hi0]

(* The end of an iteration of the window loop: the hash is rolled on.      *)
rkRoll(src, st, i) ==
    [st EXCEPT !.currentHash = (@ % 65536) * 256 + ToByte(ViewGet(src, i + 3))]

(* The window loop at index i where the hashes are equal and the two       *)
(* strings agree on currentSize bytes.                                     *)
rkHit(src, st, i, currentSize) ==
    IF currentSize > st.bestSize
    THEN IF currentSize = MAX_MATCH
         THEN [st EXCEPT !.bestSize = currentSize, !.bestPosition = i, !.stop = TRUE]
         ELSE rkRoll(src, [st EXCEPT !.bestSize = currentSize, !.bestPosition = i], i)
    ELSE rkRoll(src, st, i)

(* One iteration of the window loop of _rabinKarp, at window index i.      *)
rkBody(src, srcPos, smp, hash, st, i) ==
    IF st.currentHash = hash
    THEN rkHit(src, st, i,
               matchExtend(src, i, srcPos, [size |-> 3, stop |-> FALSE], 3, smp).size)
    ELSE rkRoll(src, st, i)

(* The window loop of _rabinKarp, for i in [lo0, hi0).                     *)
rkScan(src, srcPos, smp, hash, st0, lo0, hi0) ==
    LET loop[st \in [bestSize : Nat, bestPosition : Nat, stop : BOOLEAN, currentHash : Nat],
             lo \in Nat, hi \in Nat] ==
            CASE st.stop \/ lo >= hi -> st
              [] ~st.stop /\ hi - lo = 1 -> rkBody(src, srcPos, smp, hash, st, lo)
              [] ~st.stop /\ hi - lo > 1 ->
                    loop[loop[st, lo, (lo + hi) \div 2], (lo + hi) \div 2, hi]
    IN  loop[st0, lo0, hi0]

(* What _rabinKarp returns and stores from the final state of its loop.    *)
rkResult(st) == [size |-> st.bestSize, pos |-> st.bestPosition, set |-> TRUE]

(* A search whose window starts one byte earlier. *)
rabinKarpWide(src, srcPos) ==
    IF src.len - srcPos < 3 THEN [size |-> 0, pos |-> 0, set |-> FALSE]
    ELSE rkResult(rkScan(src, srcPos, Min(src.len - srcPos, MAX_MATCH),
                         Shr8(parse32(src, srcPos)),
                         [bestSize |-> 0, bestPosition |-> 0, stop |-> FALSE,
                          currentHash |-> Shr8(parse32(src, Max(0, srcPos - WINDOW_SIZE - 1)))],
                         Max(0, srcPos - WINDOW_SIZE - 1), srcPos))

(* _rabinKarp: the best match for srcPos in the window before it.  set is  *)
(* FALSE when the function returns before storing a position.              *)
rabinKarp(src, srcPos) ==
    IF src.len - srcPos < 3 THEN [size |-> 0, pos |-> 0, set |-> FALSE]
    ELSE rkResult(rkScan(src, srcPos, Min(src.len - srcPos, MAX_MATCH),
                         Shr8(parse32(src, srcPos)),
                         [bestSize |-> 0, bestPosition |-> 0, stop |-> FALSE,
                          currentHash |-> Shr8(parse32(src, Max(0, srcPos - WINDOW_SIZE)))],
                         Max(0, srcPos - WINDOW_SIZE), srcPos))

(* The threshold of the lazy look-ahead: the match at srcPos + 1 is taken  *)
(* when it is at least this much longer.                                   *)
lazyGain == 2

(* A look-ahead that is taken whenever its match is longer. *)
findBestAheadEager(e, value, r2) ==
    IF r2.size >= value + 1
    THEN [e EXCEPT !.size = r2.size, !.match = IF r2.set THEN r2.pos ELSE @,
                   !.length = 1, !.flag = 1,
                   !.matchPosition = IF r2.set THEN r2.pos ELSE e.match]
    ELSE [e EXCEPT !.size = r2.size, !.match = IF r2.set THEN r2.pos ELSE @,
                   !.length = value]

(* _findBest after the look-ahead _rabinKarp(srcPos + 1, true) returned r2 *)
(* and the first search returned value.                                    *)
findBestAhead(e, value, r2) ==
    IF r2.size >= value + lazyGain
    THEN [e EXCEPT !.size = r2.size, !.match = IF r2.set THEN r2.pos ELSE @,
                   !.length = 1, !.flag = 1,
                   !.matchPosition = IF r2.set THEN r2.pos ELSE e.match]
    ELSE [e EXCEPT !.size = r2.size, !.match = IF r2.set THEN r2.pos ELSE @,
                   !.length = value]

(* _findBest after the first search _rabinKarp(srcPos) returned r1.        *)
findBestFirst(e, r1) ==
    IF r1.size >= 3
    THEN findBestAhead([e EXCEPT !.matchPosition = IF r1.set THEN r1.pos ELSE @],
                       r1.size, rabinKarp(e.src, e.srcPos + 1))
    ELSE [e EXCEPT !.matchPosition = IF r1.set THEN r1.pos ELSE @, !.length = r1.size]

(* _findBest on encoder state e: e with length (the returned value) set.   *)
findBest(e) ==
    IF e.flag = 1 THEN [e EXCEPT !.flag = 0, !.length = e.size]
    ELSE findBestFirst([e EXCEPT !.flag = 0], rabinKarp(e.src, e.srcPos))

(* The encoder's state after the constructor and the header writes.  dst   *)
(* is the Uint8Array over the transient buffer from offset 16 on.          *)
encodeInit(src) ==
    [src |-> src, srcPos |-> 0, matchPosition |-> 0, match |-> 0, size |-> 0,
     flag |-> 0, length |-> 0,
     dst |-> View(EmptyMem, 16, src.len + BUFFER_EXTRA_BYTES - 16),
     cbPos |-> 0, dstPos |-> 1, bitmask |-> 128, cb |-> 0,
     tokens |-> << >>]

(* The three bytes a long back-reference is written as.                    *)
longToken(dist, length) == << dist \div 256, dist % 256, (length - 18) % 256 >>

shortTokenNoBias(dist, length) == << length * 16 + dist \div 256, dist % 256 >>

(* The two bytes a short back-reference is written as.                     *)
shortToken(dist, length) == << (length - 2) * 16 + dist \div 256, dist % 256 >>

RECURSIVE putSeq(_, _, _)
putSeq(dst, pos, bytes) ==
    IF bytes = << >> THEN dst
    ELSE putSeq(ViewPut(dst, pos, Head(bytes)), pos + 1, Tail(bytes))

(* The token of one iteration of the while loop of _encode, f being the    *)
(* state _findBest left.  tokens records what was emitted: <<position,     *)
(* span, match position>> (span 0 for a literal).                          *)
encodeEmit(f) ==
    LET dist == f.srcPos - f.matchPosition - 1
        clamped == IF f.length > MAX_MATCH THEN MAX_MATCH ELSE f.length
        bytes == IF f.length < 3 THEN << ViewGet(f.src, f.srcPos) >>
                 ELSE IF f.length > 17 THEN longToken(dist, clamped)
                 ELSE shortToken(dist, f.length)
    IN [f EXCEPT !.dst = putSeq(@, f.dstPos, bytes),
                 !.dstPos = @ + Len(bytes),
                 !.srcPos = @ + (IF f.length < 3 THEN 1 ELSE clamped),
                 !.cb = IF f.length < 3 THEN @ + f.bitmask ELSE @,
                 !.bitmask = @ \div 2,
                 !.tokens = Append(@, << f.srcPos, IF f.length < 3 THEN 0 ELSE clamped,
                                         f.matchPosition >>)]

(* The end of an iteration: a full group stores its code byte and reserves *)
(* the next one when input is left.                                        *)
encodeFlush(g) ==
    IF g.bitmask = 0
    THEN [g EXCEPT !.dst = ViewPut(@, g.cbPos, g.cb),
                   !.cbPos = g.dstPos,
                   !.dstPos = IF g.srcPos < g.src.len THEN @ + 1 ELSE @,
                   !.cb = 0, !.bitmask = 128]
    ELSE g

(* One iteration of the while loop of _encode.                             *)
encodeStep(e) == encodeFlush(encodeEmit(findBest(e)))

(* The frame length: (dstPos + 31) & -16.                                  *)
outSize(dstPos) == ((dstPos + 31) \div 16) * 16

(* The header bytes ("Yaz0", the size as a big-endian u32) and the stream. *)
frameByte(e, k) ==
    IF k < 4 THEN << 89, 97, 122, 48 >>[k + 1]
    ELSE IF k = 4 THEN (e.src.len \div 16777216) % 256
    ELSE IF k = 5 THEN (e.src.len \div 65536) % 256
    ELSE IF k = 6 THEN (e.src.len \div 256) % 256
    ELSE IF k = 7 THEN e.src.len % 256
    ELSE IF k < 16 THEN 0
    ELSE ViewGet(e.dst, k - 16)

(* The frame of n bytes cut from the transient buffer; constructing it     *)
(* fails (RangeError) when n exceeds the buffer.                           *)
encodeResult(f, n) ==
    IF n > f.src.len + BUFFER_EXTRA_BYTES THEN [ok |-> FALSE, result |-> << >>]
    ELSE [ok |-> TRUE, result |-> [k \in 1..n |-> frameByte(f, k - 1)]]

(* The end of _encode: the pending code byte is stored and the result is   *)
(* the first outSize bytes of the transient buffer.                        *)
encodeFinish(e) ==
    encodeResult(IF e.bitmask # 0 THEN [e EXCEPT !.dst = ViewPut(@, e.cbPos, e.cb)] ELSE e,
                 outSize(e.dstPos))

RECURSIVE encodeLoop(_)
encodeLoop(e) == IF e.srcPos < e.src.len THEN encodeLoop(encodeStep(e)) ELSE e

(* new Yaz0Compressor(src).result                                          *)
Yaz0Compress(src) == encodeFinish(encodeLoop(encodeInit(src)))

(***************************************************************************)
(* Yaz0 decompressor (Decompressor._decompress).                           *)
(***************************************************************************)
decompressInit(src, dst, size) ==
    [src |-> src, dst |-> dst, size |-> size, srcPos |-> 0, dstPos |-> 0,
     cb |-> 0, bitCount |-> 0]

(* The copy loop of a back-reference, for i in [lo, hi): byte by byte, so  *)
(* that the source may overlap the bytes being written (nothing is written *)
(* to a destination of length 0).                                          *)
RECURSIVE copyLoop(_, _, _, _, _)
copyLoop(dst, dstPos, copyPos, lo, hi) ==
    IF dst.len = 0 \/ lo >= hi THEN dst
    ELSE IF hi - lo = 1 THEN ViewPut(dst, dstPos + lo, ViewGet(dst, copyPos + lo))
    ELSE copyLoop(copyLoop(dst, dstPos, copyPos, lo, (lo + hi) \div 2),
                  dstPos, copyPos, (lo + hi) \div 2, hi)

(* The length of a back-reference from its first byte b1 and, when the     *)
(* high nibble is 0, the third byte b3.  undefined + 0x12 is NaN, and the  *)
(* copy loop then does not run: length 0.                                  *)
refLength(b1, b3) ==
    IF ToByte(b1) \div 16 = 0 THEN (IF b3 = Undef THEN 0 ELSE b3 + 18)
    ELSE ToByte(b1) \div 16 + 2

(* The source position a back-reference copies from.                       *)
refCopyPos(dstPos, b1, b2) == dstPos - (((ToByte(b1) % 16) * 256 + ToByte(b2)) + 1)

(* One iteration of the while loop of _decompress with the code byte cb,   *)
(* bits bits of it left, and the token at source position p.               *)
decompressToken(d, cb, p, bits) ==
    IF (ToByte(cb) \div 128) % 2 = 1
    THEN [d EXCEPT !.dst = ViewPut(@, d.dstPos, ViewGet(d.src, p)),
                   !.dstPos = @ + 1, !.srcPos = p + 1,
                   !.cb = ToByte(cb) * 2, !.bitCount = bits - 1]
    ELSE [d EXCEPT !.dst = copyLoop(@, d.dstPos,
                                    refCopyPos(d.dstPos, ViewGet(d.src, p), ViewGet(d.src, p + 1)),
                                    0, refLength(ViewGet(d.src, p), ViewGet(d.src, p + 2))),
                   !.dstPos = @ + refLength(ViewGet(d.src, p), ViewGet(d.src, p + 2)),
                   !.srcPos = IF ToByte(ViewGet(d.src, p)) \div 16 = 0 THEN p + 3 ELSE p + 2,
                   !.cb = ToByte(cb) * 2, !.bitCount = bits - 1]

(* One iteration of the while loop of _decompress: a new code byte is read *)
(* when no bits are left.                                                  *)
decompressStep(d) ==
    IF d.bitCount = 0 THEN decompressToken(d, ViewGet(d.src, d.srcPos), d.srcPos + 1, 8)
    ELSE decompressToken(d, d.cb, d.srcPos, d.bitCount)

(* The loop never ends once the source is exhausted at a code-byte         *)
(* boundary: every further code byte and token byte reads undefined, which *)
(* decodes as a back-reference of length NaN, and dstPos stands still.     *)
decompressStuck(d) == d.dstPos < d.size /\ d.bitCount = 0 /\ d.srcPos >= d.src.len

RECURSIVE decompressLoop(_)
decompressLoop(d) ==
    IF d.dstPos >= d.size \/ decompressStuck(d) THEN d
    ELSE decompressLoop(decompressStep(d))

(***************************************************************************)
(* 32-bit words.  A word read from a buffer is the tuple of its four bytes *)
(* in buffer order (big-endian); the number it stands for is taken where   *)
(* the code computes with it.  The checksum registers are pairs of 16-bit  *)
(* halves <<hi, lo>>.                                                      *)
(***************************************************************************)
Num(w) == ((w[1] * 256 + w[2]) * 256 + w[3]) * 256 + w[4]

Word(n) == << (n \div 16777216) % 256, (n \div 65536) % 256, (n \div 256) % 256, n % 256 >>

ZERO_WORD == << 0, 0, 0, 0 >>

NULL_WORD == << 255, 255, 255, 255 >>

(* a < b for two words as unsigned numbers. *)
WordLT(a, b) ==
    \/ a[1] < b[1]
    \/ a[1] = b[1] /\ (a[2] * 256 + a[3]) * 256 + a[4] < (b[2] * 256 + b[3]) * 256 + b[4]

Halves(w) == << w[1] * 256 + w[2], w[3] * 256 + w[4] >>

HalvesWord(x) == << x[1] \div 256, x[1] % 256, x[2] \div 256, x[2] % 256 >>

(* The exclusive or of two 4-bit values, at index 16 * a + b. *)
Xor4 ==
    [k \in 0..255 |->
        ((((k \div 16) \div 8) + ((k % 16) \div 8)) % 2) * 8
      + (((((k \div 16) \div 4) % 2) + (((k % 16) \div 4) % 2)) % 2) * 4
      + (((((k \div 16) \div 2) % 2) + (((k % 16) \div 2) % 2)) % 2) * 2
      + ((((k \div 16) % 2) + ((k % 16) % 2)) % 2)]

xor8(a, b) == Xor4[(a \div 16) * 16 + (b \div 16)] * 16 + Xor4[(a % 16) * 16 + (b % 16)]

xor16(a, b) == xor8(a \div 256, b \div 256) * 256 + xor8(a % 256, b % 256)

(* a ^ b on 32-bit values. *)
XorU(x, y) == << xor16(x[1], y[1]), xor16(x[2], y[2]) >>

(* u32(a + b). *)
AddU(x, y) ==
    << (x[1] + y[1] + (x[2] + y[2]) \div 65536) % 65536, (x[2] + y[2]) % 65536 >>

(* u32(a + b) < a: the addition overflows 32 bits. *)
AddCarry(x, y) == x[1] + y[1] + (x[2] + y[2]) \div 65536 >= 65536

(* a > b on 32-bit values. *)
GtU(x, y) == x[1] > y[1] \/ (x[1] = y[1] /\ x[2] > y[2])

Pow2 == [j \in 0..16 |-> 2 ^ j]

(* A rotation to the left by j < 16 bits. *)
rolSmall(x, j) ==
    << ((x[1] * Pow2[j]) % 65536) + (x[2] \div Pow2[16 - j]),
       ((x[2] * Pow2[j]) % 65536) + (x[1] \div Pow2[16 - j]) >>

(* rol(a, b) = (a << b) | (a >>> (32 - b)) as an unsigned 32-bit value, for *)
(* b in 0..31 (the shift counts are taken modulo 32, so rol(a, 0) = a).    *)
rol(x, b) == IF b >= 16 THEN rolSmall(<< x[2], x[1] >>, b - 16) ELSE rolSmall(x, b)

(***************************************************************************)
(* N64 header checksum (N64Crc).                                           *)
(***************************************************************************)
N64_HEADER_SIZE == 64

N64_BOOT_CODE_SIZE == 4032

N64_CRC1_OFFSET == 16

N64_CRC2_OFFSET == 20

CHECKSUM_OFFSET == 4096

CHECKSUM_LENGTH == 1048576

BOOT_WORDS_OFFSET == 1872

CRC_POLY == << 60856, 33568 >>

(* One of the eight steps of _generateTable on crc. *)
tableStep(crc) ==
    IF crc[2] % 2 = 1
    THEN XorU(<< crc[1] \div 2, (crc[1] % 2) * 32768 + crc[2] \div 2 >>, CRC_POLY)
    ELSE << crc[1] \div 2, (crc[1] % 2) * 32768 + crc[2] \div 2 >>

(* _generateTable: the CRC-32 table. *)
crcTable ==
    [i \in 0..255 |->
        tableStep(tableStep(tableStep(tableStep(
        tableStep(tableStep(tableStep(tableStep(<< 0, i >>))))))))]

(* One iteration of the loop of _crc32 on the byte b. *)
crc32Step(crc, b) ==
    XorU(<< crc[1] \div 256, (crc[1] % 256) * 256 + crc[2] \div 256 >>,
         crcTable[xor8(crc[2] % 256, b)])

(* The loop of _crc32 over the bytes of the view data, from the register   *)
(* value init: the bytes [lo, hi) are taken in order, the first half of    *)
(* the range before the second.                                            *)
crc32Loop(data, init) ==
    LET loop[crc \in Nat \X Nat, lo \in Nat, hi \in Nat] ==
            CASE hi - lo > 1 -> loop[loop[crc, lo, (lo + hi) \div 2], (lo + hi) \div 2, hi]
              [] hi - lo = 1 -> crc32Step(crc, ToByte(ViewGet(data, lo)))
              [] OTHER -> crc
    IN  loop[init, 0, data.len]

(* _crc32(data). *)
crc32(data) ==
    LET final[crc \in Nat \X Nat] == XorU(crc, << 65535, 65535 >>)
    IN  final[crc32Loop(data, << 65535, 65535 >>)]

(* _cic: the boot code of the CRC-32 of the boot block, 0 when it is none  *)
(* of the known ones (the code then throws).                               *)
cic(crc) ==
    CASE crc = << 24944, 42145 >> -> 6101
      [] crc = << 37051, 27829 >> -> 6102
      [] crc = << 2821, 3808 >> -> 6103
      [] crc = << 39100, 11398 >> -> 6105
      [] crc = << 44232, 22538 >> -> 6106
      [] OTHER -> 0

CHECKSUM_CIC6102 == << 63690, 19932 >>

CHECKSUM_CIC6103 == << 41864, 26457 >>

CHECKSUM_CIC6105 == << 57126, 62518 >>

CHECKSUM_CIC6106 == << 8170, 24954 >>

(* _seed *)
seed(bootCode) ==
    CASE bootCode \in {6101, 6102} -> CHECKSUM_CIC6102
      [] bootCode = 6103 -> CHECKSUM_CIC6103
      [] bootCode = 6105 -> CHECKSUM_CIC6105
      [] bootCode = 6106 -> CHECKSUM_CIC6106

(* The full product of two 16-bit values. *)
Mul16(a, b) ==
    AddU(<< ((a \div 256) * b) \div 256, (((a \div 256) * b) % 256) * 256 >>,
         << ((a % 256) * b) \div 65536, ((a % 256) * b) % 65536 >>)

(* u32(a * b) for two 32-bit values. *)
MulU(x, y) ==
    AddU(Mul16(x[2], y[2]), << (Mul16(x[1], y[2])[2] + Mul16(x[2], y[1])[2]) % 65536, 0 >>)

(* One iteration of the loop of _calculate: d is the word at address i and *)
(* e the word of the boot block that CIC 6105 mixes in.                    *)
calcStep(t, d, e, bootCode) ==
    [t1 |-> IF bootCode = 6105 THEN AddU(t.t1, XorU(e, d))
            ELSE AddU(t.t1, XorU(AddU(t.t5, rol(d, d[2] % 32)), d)),
     t2 |-> IF GtU(t.t2, d) THEN XorU(t.t2, rol(d, d[2] % 32))
            ELSE XorU(XorU(t.t2, AddU(t.t6, d)), d),
     t3 |-> XorU(t.t3, d),
     t4 |-> IF AddCarry(t.t6, d) THEN AddU(t.t4, << 0, 1 >>) ELSE t.t4,
     t5 |-> AddU(t.t5, rol(d, d[2] % 32)),
     t6 |-> AddU(t.t6, d)]

(* The word of the boot block that CIC 6105 reads in the iteration at      *)
(* address i.                                                              *)
bootWord(mem, i) ==
    Halves(<< Get(mem, BOOT_WORDS_OFFSET + (i % 256)), Get(mem, BOOT_WORDS_OFFSET + (i % 256) + 1),
              Get(mem, BOOT_WORDS_OFFSET + (i % 256) + 2), Get(mem, BOOT_WORDS_OFFSET + (i % 256) + 3) >>)

(* How many of the n iterations from address i0 on read the boot word at   *)
(* offset 4 * o.                                                           *)
bootWordCount(o, i0, n) ==
    IF ((4 * o - i0) % 256) \div 4 < n
    THEN (n - 1 - ((4 * o - i0) % 256) \div 4) \div 64 + 1
    ELSE 0

(* The sum of the boot words that n iterations from address i0 on read,    *)
(* over the 64 word offsets of the 256-byte window.                        *)
bootWordSum(mem, i0, n) ==
    LET sum[acc \in Nat \X Nat, lo \in Nat, hi \in Nat] ==
            IF lo >= hi THEN acc
            ELSE IF hi - lo = 1
            THEN AddU(acc, MulU(bootWord(mem, 4 * lo),
                                << bootWordCount(lo, i0, n) \div 65536,
                                   bootWordCount(lo, i0, n) % 65536 >>))
            ELSE sum[sum[acc, lo, (lo + hi) \div 2], (lo + hi) \div 2, hi]
    IN  sum[<< 0, 0 >>, 0, 64]

(* n iterations of the loop of _calculate from address i0 on, over words   *)
(* that are all 0: t3..t6 stay, t2 takes t6 if it is 0, and t1 grows by t5 *)
(* each time (by the boot word read, for CIC 6105).                        *)
calcZeroRun(mem, t, i0, n, bootCode) ==
    IF n <= 0 THEN t
    ELSE [t EXCEPT !.t1 = IF bootCode = 6105 THEN AddU(@, bootWordSum(mem, i0, n))
                          ELSE AddU(@, MulU(t.t5, << n \div 65536, n % 65536 >>)),
                   !.t2 = IF @ = << 0, 0 >> THEN t.t6 ELSE @]

(* The registers t1..t6 of _calculate. *)
Registers ==
    [t1 : Nat \X Nat, t2 : Nat \X Nat, t3 : Nat \X Nat,
     t4 : Nat \X Nat, t5 : Nat \X Nat, t6 : Nat \X Nat]

(* The loop of _calculate from the registers t0 on; ws holds, in ascending *)
(* order, the addresses of the words of the range that are not 0.  step is *)
(* the iteration at address i; the addresses [lo, hi), which hold the      *)
(* words ws[a..b], are taken in order: those before the word in the middle *)
(* of ws[a..b], that word, those after it.                                 *)
calcLoop(mem, ws, t0, bootCode) ==
    LET step[t \in Registers, i \in Nat] ==
            calcStep(t, Halves(<< Get(mem, i), Get(mem, i + 1), Get(mem, i + 2), Get(mem, i + 3) >>),
                     bootWord(mem, i), bootCode)
        loop[t \in Registers, a \in Nat, b \in Nat, lo \in Nat, hi \in Nat] ==
            IF a > b THEN calcZeroRun(mem, t, lo, (hi - lo) \div 4, bootCode)
            ELSE loop[step[loop[t, a, (a + b) \div 2 - 1, lo, ws[(a + b) \div 2]],
                           ws[(a + b) \div 2]],
                      (a + b) \div 2 + 1, b, ws[(a + b) \div 2] + 4, hi]
    IN  loop[t0, 1, Len(ws), CHECKSUM_OFFSET, CHECKSUM_OFFSET + CHECKSUM_LENGTH]

(* Numbers above 32 bits are kept as five 16-bit limbs, the lowest first.  *)
(* They are the values of JavaScript's doubles, which hold 53 significant  *)
(* bits: a product or a sum is rounded to the nearest such value, to the   *)
(* even one on a tie.                                                      *)
limbCarry(l) ==
    << l[1] % 65536,
       (l[2] + l[1] \div 65536) % 65536,
       (l[3] + (l[2] + l[1] \div 65536) \div 65536) % 65536,
       (l[4] + (l[3] + (l[2] + l[1] \div 65536) \div 65536) \div 65536) % 65536,
       l[5] + (l[4] + (l[3] + (l[2] + l[1] \div 65536) \div 65536) \div 65536) \div 65536 >>

(* The exact product of two 32-bit values. *)
mulFull(x, y) ==
    limbCarry(<< Mul16(x[2], y[2])[2],
                 Mul16(x[2], y[2])[1] + Mul16(x[1], y[2])[2] + Mul16(x[2], y[1])[2],
                 Mul16(x[1], y[2])[1] + Mul16(x[2], y[1])[1] + Mul16(x[1], y[1])[2],
                 Mul16(x[1], y[1])[1],
                 0 >>)

bitLen16(v) == Cardinality({j \in 0..15 : Pow2[j] <= v})

bitLen(l) ==
    IF l[5] > 0 THEN 64 + bitLen16(l[5])
    ELSE IF l[4] > 0 THEN 48 + bitLen16(l[4])
    ELSE IF l[3] > 0 THEN 32 + bitLen16(l[3])
    ELSE IF l[2] > 0 THEN 16 + bitLen16(l[2])
    ELSE bitLen16(l[1])

(* The lowest limb v rounded to a multiple of 2^q, to even on a tie.       *)
roundLow(v, q) ==
    IF v % Pow2[q] > Pow2[q - 1] \/ (v % Pow2[q] = Pow2[q - 1] /\ (v \div Pow2[q]) % 2 = 1)
    THEN v - (v % Pow2[q]) + Pow2[q]
    ELSE v - (v % Pow2[q])

(* The double nearest to the number l (below 2^66). *)
round53(l) ==
    IF bitLen(l) <= 53 THEN l
    ELSE limbCarry([l EXCEPT ![1] = roundLow(@, bitLen(l) - 53)])

(* u32((a * b) + c) as JavaScript computes it on doubles. *)
mulAddDouble(a, b, c) ==
    << round53(limbCarry([round53(mulFull(a, b)) EXCEPT ![1] = @ + c[2], ![2] = @ + c[1]]))[2],
       round53(limbCarry([round53(mulFull(a, b)) EXCEPT ![1] = @ + c[2], ![2] = @ + c[1]]))[1] >>

(* What _calculate returns from the final registers, as unsigned 32-bit    *)
(* values (recalculate stores the bytes of crc >>> 24, 16, 8, 0).          *)
calcResult(t, bootCode) ==
    IF bootCode = 6103 THEN << AddU(XorU(t.t6, t.t4), t.t3), AddU(XorU(t.t5, t.t2), t.t1) >>
    ELSE IF bootCode = 6106
    THEN << mulAddDouble(t.t6, t.t4, t.t3), mulAddDouble(t.t5, t.t2, t.t1) >>
    ELSE << XorU(XorU(t.t6, t.t4), t.t3), XorU(XorU(t.t5, t.t2), t.t1) >>

(* The addresses of the words in the checksummed range that are not 0, in  *)
(* ascending order.                                                        *)
checksumWords(mem) ==
    LET W == {(a \div 4) * 4 : a \in {x \in DOMAIN mem : x >= CHECKSUM_OFFSET
                                                          /\ x < CHECKSUM_OFFSET + CHECKSUM_LENGTH}}
    IN  [k \in 1..Cardinality(W) |-> CHOOSE w \in W : Cardinality({x \in W : x < w}) = k - 1]

(* _calculate for a known boot code. *)
calculate(mem, bootCode) ==
    LET result[t \in Registers] == calcResult(t, bootCode)
    IN  result[calcLoop(mem, checksumWords(mem),
                        [t1 |-> seed(bootCode), t2 |-> seed(bootCode), t3 |-> seed(bootCode),
                         t4 |-> seed(bootCode), t5 |-> seed(bootCode), t6 |-> seed(bootCode)],
                        bootCode)]

(* The sequence s repeated n times. *)
Rep(s, n) == [k \in 1..(n * Len(s)) |-> s[((k - 1) % Len(s)) + 1]]

(***************************************************************************)
(* Buffers (ArrayBuffer, DataView, Reader, Writer).  A buffer is a record   *)
(* [size, mem]; a run of bytes (the contents of a slice or of a typed      *)
(* array) is a sparse memory addressed from 0.                             *)
(***************************************************************************)
Buffer(size, mem) == [size |-> size, mem |-> mem]

(* DataView.getUint32(a): the four bytes at a, in buffer order.            *)
ReadWord(mem, a) == << Get(mem, a), Get(mem, a + 1), Get(mem, a + 2), Get(mem, a + 3) >>

(* ArrayBuffer.slice(off, off + len): the bytes of [off, off + len) that   *)
(* the buffer holds, addressed from 0.                                     *)
Slice(mem, off, len) ==
    [k \in {a - off : a \in {x \in DOMAIN mem : x >= off /\ x < off + len}} |-> mem[k + off]]

(* The first len bytes of the run src stored at address at on; a byte the  *)
(* run does not hold is stored as 0.                                       *)
Blit(mem, at, src, len) ==
    [a \in {x \in DOMAIN mem : x < at \/ x >= at + len}
             \cup {k + at : k \in {y \in DOMAIN src : y < len}} |->
        IF a >= at /\ a < at + len THEN src[a - at] ELSE mem[a]] @@ << >>

(* Writer.writeBytes(data, start, length): setUint8 byte by byte; the      *)
(* first offset outside the buffer throws a RangeError and the bytes       *)
(* stored before it stay; a length of 0 stores nothing; a negative length  *)
(* stores nothing and fails the final count check.                         *)
writeBytes(buf, src, start, length) ==
    IF length < 0 THEN [buf |-> buf, err |-> "did not copy all bytes"]
    ELSE IF length = 0 THEN [buf |-> buf, err |-> ""]
    ELSE IF start < 0 THEN [buf |-> buf, err |-> "RangeError"]
    ELSE IF start + length > buf.size
    THEN [buf |-> [buf EXCEPT !.mem = Blit(@, start, src, Max(0, buf.size - start))],
          err |-> "RangeError"]
    ELSE [buf |-> [buf EXCEPT !.mem = Blit(@, start, src, length)], err |-> ""]

(* Writer.fill(value, size, offset): the bytes stored are always 0 (the    *)
(* array that is filled with value is not the one that is written).        *)
fill(buf, size, offset) ==
    IF size < 0 THEN [buf |-> buf, err |-> "RangeError"]
    ELSE writeBytes(buf, EmptyMem, offset, size)

(* The bytes of the sequence s as a run. *)
Run(s) == [k \in {j \in 0..(Len(s) - 1) : s[j + 1] # 0} |-> s[k + 1]]

(* DataView.setUint32(a, w): nothing is stored when the word does not fit. *)
writeUint32(buf, a, w) ==
    IF a < 0 \/ a + 4 > buf.size THEN [buf |-> buf, err |-> "RangeError"]
    ELSE [buf |-> [buf EXCEPT !.mem = Blit(@, a, Run(w), 4)],
          err |-> ""]

(***************************************************************************)
(* The ROM model (Rom).                                                    *)
(***************************************************************************)
CRC_OFFSET == 16

DMA_RECORD_SIZE == 16

COMPRESSED_ROM_SIZE == 33554432

DECOMPRESSED_ROM_SIZE == 67108864

DMA_INFO_RECORD_INDEX == 2

crcCompressed == << 236, 112, 17, 183, 118, 22, 215, 43 >>

crcBigEndianCompressed == << 112, 236, 183, 17, 22, 118, 43, 215 >>

crcDecompressed == << 147, 82, 46, 123, 229, 6, 212, 39 >>

(* validateRom: the type of the ROM from the eight bytes at CRC_OFFSET, or *)
(* the error thrown.                                                       *)
validateRom(buf) ==
    IF buf.size < CRC_OFFSET + 8 THEN "RangeError"
    ELSE IF [k \in 1..8 |-> Get(buf.mem, CRC_OFFSET + k - 1)] = crcCompressed
    THEN "COMPRESSED"
    ELSE IF [k \in 1..8 |-> Get(buf.mem, CRC_OFFSET + k - 1)] = crcBigEndianCompressed
    THEN "BIG_ENDIAN_COMPRESSED"
    ELSE IF [k \in 1..8 |-> Get(buf.mem, CRC_OFFSET + k - 1)] = crcDecompressed
    THEN "DECOMPRESSED"
    ELSE "Not a valid ROM."

(* The address a byte moves to when the 16-bit units are byte swapped. *)
swap16(a) == IF a % 2 = 0 THEN a + 1 ELSE a - 1

(* _fixEndianness: the 16-bit units of the first COMPRESSED_ROM_SIZE bytes *)
(* are byte swapped in place (a unit outside the buffer is not stored).    *)
fixEndianness(buf) ==
    [buf EXCEPT !.mem =
        [a \in {swap16(x) : x \in {y \in DOMAIN buf.mem :
                                     y < COMPRESSED_ROM_SIZE /\ y < 2 * (buf.size \div 2)}}
                 \cup {y \in DOMAIN buf.mem :
                          y >= COMPRESSED_ROM_SIZE \/ y >= 2 * (buf.size \div 2)} |->
            IF a < COMPRESSED_ROM_SIZE /\ a < 2 * (buf.size \div 2)
            THEN buf.mem[swap16(a)] ELSE buf.mem[a]] @@ << >>]

(* The first word index of the scan of _findDmaTableOffset and its bound.  *)
DMA_SCAN_FIRST == 1048

DMA_SCAN_BOUND == 16777216

(* The byte offsets at which the scan of _findDmaTableOffset matches: the  *)
(* word index i = o / 4 is one the loop visits, array[i] is 0 and          *)
(* array[i + 1], read in the little-endian order of the Uint32Array, is    *)
(* 0x60100000, that is, the bytes at o + 4 are 00 00 10 60.                *)
dmaMatches(buf) ==
    {o \in {a - 7 : a \in {x \in DOMAIN buf.mem : buf.mem[x] = 96}} :
        /\ o >= 4 * DMA_SCAN_FIRST
        /\ (o \div 4 - DMA_SCAN_FIRST) % 4 = 0
        /\ o % 4 = 0
        /\ o \div 4 + 4 < DMA_SCAN_BOUND
        /\ o + 8 <= buf.size
        /\ ReadWord(buf.mem, o) = << 0, 0, 0, 0 >>
        /\ ReadWord(buf.mem, o + 4) = << 0, 0, 16, 96 >>}

(* _findDmaTableOffset: the first match of the scan, Undef when the scan   *)
(* ends without one ("no DMA table found").                                *)
findDmaTableOffset(buf) ==
    IF dmaMatches(buf) = {} THEN Undef
    ELSE CHOOSE o \in dmaMatches(buf) : \A p \in dmaMatches(buf) : o <= p

(* The four reads of readDmaRecord at byte address a.                      *)
readRecordAt(buf, a) ==
    IF a < 0 \/ a + DMA_RECORD_SIZE > buf.size
    THEN [err |-> "RangeError", virtualStart |-> ZERO_WORD, virtualEnd |-> ZERO_WORD,
          physicalStart |-> ZERO_WORD, physicalEnd |-> ZERO_WORD]
    ELSE [err |-> "", virtualStart |-> ReadWord(buf.mem, a),
          virtualEnd |-> ReadWord(buf.mem, a + 4),
          physicalStart |-> ReadWord(buf.mem, a + 8),
          physicalEnd |-> ReadWord(buf.mem, a + 12)]

(* The constructor of Rom after validateRom returned type: the table is    *)
(* located and its size is read from record DMA_INFO_RECORD_INDEX (whose   *)
(* index is not checked, _dmaCount being still undefined).                 *)
romLocate(buf, type, offset) ==
    IF offset = Undef
    THEN [err |-> "no DMA table found", type |-> type, dmaOffset |-> 0, dmaSize |-> 0]
    ELSE [err |-> readRecordAt(buf, offset + DMA_INFO_RECORD_INDEX * DMA_RECORD_SIZE).err,
          type |-> type, dmaOffset |-> offset,
          dmaSize |-> IF readRecordAt(buf, offset + DMA_INFO_RECORD_INDEX * DMA_RECORD_SIZE).err # ""
                      THEN 0
                      ELSE Num(readRecordAt(buf, offset + DMA_INFO_RECORD_INDEX * DMA_RECORD_SIZE).virtualEnd)
                           - Num(readRecordAt(buf, offset + DMA_INFO_RECORD_INDEX * DMA_RECORD_SIZE).virtualStart)]

(* new Rom(buffer, fix): the fields of the instance and the buffer, which  *)
(* the constructor byte swaps when fix is true and the type asks for it.   *)
newRom(buf, fix, type) ==
    IF type \in {"RangeError", "Not a valid ROM."}
    THEN [rom |-> [err |-> type, type |-> type, dmaOffset |-> 0, dmaSize |-> 0], buf |-> buf]
    ELSE IF buf.size % 4 # 0
    THEN [rom |-> [err |-> "RangeError", type |-> type, dmaOffset |-> 0, dmaSize |-> 0], buf |-> buf]
    ELSE IF type = "BIG_ENDIAN_COMPRESSED" /\ fix
    THEN [rom |-> romLocate(fixEndianness(buf), "COMPRESSED", findDmaTableOffset(fixEndianness(buf))),
          buf |-> fixEndianness(buf)]
    ELSE [rom |-> romLocate(buf, type, findDmaTableOffset(buf)), buf |-> buf]

(* The dmaSize getter and dmaCount = dmaSize / DMA_RECORD_SIZE, which need *)
(* not be whole: i < dmaCount is DMA_RECORD_SIZE * i < dmaSize.            *)
dmaSize(rom) == rom.dmaSize

belowDmaCount(rom, i) == DMA_RECORD_SIZE * i < dmaSize(rom)

(* readDmaRecord(index) *)
readDmaRecord(buf, rom, index) ==
    IF ~belowDmaCount(rom, index)
    THEN [err |-> "DMA record index is out of bounds", virtualStart |-> ZERO_WORD,
          virtualEnd |-> ZERO_WORD, physicalStart |-> ZERO_WORD, physicalEnd |-> ZERO_WORD]
    ELSE readRecordAt(buf, rom.dmaOffset + index * DMA_RECORD_SIZE)

(* writeDmaRecord(out, index, record): the four words stored at            *)
(* offset + index * DMA_RECORD_SIZE on; the first word that does not fit   *)
(* throws and the words before it stay.                                    *)
writeRecordAt(buf, a, r) ==
    [buf |-> [buf EXCEPT !.mem =
                 Blit(@, a, Run(r.virtualStart \o r.virtualEnd \o r.physicalStart \o r.physicalEnd),
                      4 * Min(4, Max(0, (buf.size - a) \div 4)))],
     err |-> IF a + DMA_RECORD_SIZE > buf.size THEN "RangeError" ELSE ""]

writeDmaRecord(buf, rom, index, r) == writeRecordAt(buf, rom.dmaOffset + index * DMA_RECORD_SIZE, r)

(* verifyDmaData: the records before the first one that is (0, 0), from    *)
(* index i on (err is the error of a read that throws).                    *)
RECURSIVE dmaData(_, _, _, _)
dmaData(buf, rom, i, acc) ==
    IF ~belowDmaCount(rom, i) THEN [err |-> "", recs |-> acc]
    ELSE IF readDmaRecord(buf, rom, i).err # ""
    THEN [err |-> readDmaRecord(buf, rom, i).err, recs |-> acc]
    ELSE IF readDmaRecord(buf, rom, i).virtualStart = ZERO_WORD
            /\ readDmaRecord(buf, rom, i).virtualEnd = ZERO_WORD
    THEN [err |-> "", recs |-> acc]
    ELSE dmaData(buf, rom, i + 1, Append(acc, readDmaRecord(buf, rom, i)))

(* The sort by virtualStart, which keeps the order of equal records: r is  *)
(* placed after the records of sorted that are not above it.               *)
sortPlaceLast(sorted, r) == Append(sorted, r)

sortPlace(sorted, r) ==
    SelectSeq(sorted, LAMBDA x : ~WordLT(r.virtualStart, x.virtualStart)) \o << r >>
        \o SelectSeq(sorted, LAMBDA x : WordLT(r.virtualStart, x.virtualStart))

RECURSIVE dmaSort(_, _, _)
dmaSort(recs, k, sorted) ==
    IF k > Len(recs) THEN sorted ELSE dmaSort(recs, k + 1, sortPlace(sorted, recs[k]))

(* The check of the neighbours in the sorted records. *)
dmaOverlap(sorted) ==
    \E k \in 1..(Len(sorted) - 1) : WordLT(sorted[k + 1].virtualStart, sorted[k].virtualEnd)

verifyDmaChecked(d) ==
    IF d.err # "" THEN d.err
    ELSE IF dmaOverlap(dmaSort(d.recs, 1, << >>)) THEN "Overlapping DMA data records!"
    ELSE ""

verifyDmaData(buf, rom) == verifyDmaChecked(dmaData(buf, rom, 0, << >>))

(***************************************************************************)
(* ROM images.  An image has the header word, the eight signature bytes at *)
(* CRC_OFFSET, a boot block that is 0 but for its last word (which selects *)
(* the CIC), the DMA table and the files.                                  *)
(***************************************************************************)
(* The run r placed at address a. *)
At(a, r) == [x \in {k + a : k \in DOMAIN r} |-> r[x - a]]

(* The last word of a boot block that is otherwise 0, for which _crc32     *)
(* gives the value _cic knows as the boot code.                            *)
BootTail(bootCode) ==
    CASE bootCode = 6101 -> << 226, 102, 86, 183 >>
      [] bootCode = 6102 -> << 137, 38, 121, 251 >>
      [] bootCode = 6103 -> << 135, 94, 146, 63 >>
      [] bootCode = 6105 -> << 143, 230, 94, 33 >>
      [] bootCode = 6106 -> << 237, 147, 220, 185 >>
      [] OTHER -> << 1, 2, 3, 4 >>

(* A DMA record from four numbers, and a null one. *)
Rec(vs, ve, ps, pe) ==
    [virtualStart |-> Word(vs), virtualEnd |-> Word(ve),
     physicalStart |-> Word(ps), physicalEnd |-> Word(pe)]

NullRec(vs, ve) ==
    [virtualStart |-> Word(vs), virtualEnd |-> Word(ve),
     physicalStart |-> NULL_WORD, physicalEnd |-> NULL_WORD]

RecBytes(r) == r.virtualStart \o r.virtualEnd \o r.physicalStart \o r.physicalEnd

RECURSIVE TableBytes(_)
TableBytes(recs) == IF recs = << >> THEN << >> ELSE RecBytes(Head(recs)) \o TableBytes(Tail(recs))

(* Where the images keep the table, the stored files and the files' data.  *)
TableAt == 512 * DMA_RECORD_SIZE

FileAt(k) == 8448 + 256 * k

VirtAt(k) == 12288 + 256 * k

(* The first three records: the boot file, the code before the table and   *)
(* the table itself, of n records.                                         *)
HeadRecs(n) ==
    << Rec(0, 4192, 0, 0), Rec(4192, TableAt, 4192, 0),
       Rec(TableAt, TableAt + DMA_RECORD_SIZE * n, TableAt, 0) >>

(* An image of the given size with the file records recs after the first   *)
(* three and the runs of data (a function from addresses to runs).         *)
Image(size, sig, bootCode, recs, data) ==
    Buffer(size,
           At(0, Run(<< 128, 55, 18, 64 >>)) @@ At(CRC_OFFSET, Run(sig))
           @@ At(N64_HEADER_SIZE + N64_BOOT_CODE_SIZE - 4, Run(BootTail(bootCode)))
           @@ At(TableAt, Run(TableBytes(HeadRecs(3 + Len(recs)) \o recs)))
           @@ data)

(* File contents and Yaz0 frames: the magic, the size, eight bytes of 0    *)
(* and the stream.                                                         *)
Frame(size, stream) == << 89, 97, 122, 48 >> \o Word(size) \o Rep(<< 0 >>, 8) \o stream

TextAB == Rep(<< 65, 66 >>, 6)

StreamAB == << 192, 65, 66, 128, 1 >>

TextRaw == << 1, 2, 3, 4, 5, 6 >>

TextRun == Rep(<< 7 >>, 20)

StreamRun == << 128, 7, 0, 0, 1 >>

(* The address a byte moves to when the 32-bit units are byte swapped. *)
swap32(a) == (a - (a % 4)) + (3 - (a % 4))

(* The same image in the 16-bit swapped and in the 32-bit swapped order.   *)
Swapped16(buf) == [buf EXCEPT !.mem = [a \in {swap16(x) : x \in DOMAIN buf.mem} |-> buf.mem[swap16(a)]]]

Swapped32(buf) == [buf EXCEPT !.mem = [a \in {swap32(x) : x \in DOMAIN buf.mem} |-> buf.mem[swap32(a)]]]

(* Compressed images. *)
RomA ==
    Image(COMPRESSED_ROM_SIZE, crcCompressed, 6102,
          << Rec(VirtAt(0), VirtAt(0) + 12, FileAt(0), FileAt(0) + 32),
             Rec(VirtAt(1), VirtAt(1) + 6, FileAt(1), 0),
             NullRec(VirtAt(2), VirtAt(2) + 16) >>,
          At(FileAt(0), Run(Frame(12, StreamAB))) @@ At(FileAt(1), Run(TextRaw)))

RomB ==
    Image(COMPRESSED_ROM_SIZE, crcCompressed, 6105,
          << Rec(VirtAt(0), VirtAt(0) + 6, FileAt(0), 0),
             Rec(VirtAt(1), VirtAt(1) + 20, FileAt(1), FileAt(1) + 32),
             Rec(VirtAt(2), VirtAt(2) + 16, DECOMPRESSED_ROM_SIZE + 16, DECOMPRESSED_ROM_SIZE + 32) >>,
          At(FileAt(0), Run(TextRaw)) @@ At(FileAt(1), Run(Frame(20, StreamRun))))

RomC ==
    Image(COMPRESSED_ROM_SIZE, crcCompressed, 6103,
          << Rec(VirtAt(0), VirtAt(0) + 12, FileAt(0), FileAt(0) + 32),
             Rec(0, 0, 0, 0) >>,
          At(FileAt(0), Run(Frame(12, StreamAB))))

RomD ==
    Image(COMPRESSED_ROM_SIZE, crcCompressed, 6106,
          << Rec(VirtAt(0), VirtAt(0) + 20, FileAt(0), FileAt(0) + 32) >>,
          At(FileAt(0), Run(Frame(20, StreamRun))))

(* A raw file whose virtual range is the place of record 3 in the table.   *)
RomE ==
    Image(COMPRESSED_ROM_SIZE, crcCompressed, 6101,
          << Rec(VirtAt(0), VirtAt(0) + 12, FileAt(0), FileAt(0) + 32),
             Rec(TableAt + 3 * DMA_RECORD_SIZE, TableAt + 3 * DMA_RECORD_SIZE + 6, FileAt(1), 0) >>,
          At(FileAt(0), Run(Frame(12, StreamAB))) @@ At(FileAt(1), Run(TextRaw)))

RomUnknownCic ==
    Image(COMPRESSED_ROM_SIZE, crcCompressed, 0,
          << Rec(VirtAt(0), VirtAt(0) + 6, FileAt(0), 0) >>,
          At(FileAt(0), Run(TextRaw)))

RomNoTable ==
    Buffer(COMPRESSED_ROM_SIZE,
           At(0, Run(<< 128, 55, 18, 64 >>)) @@ At(CRC_OFFSET, Run(crcCompressed))
           @@ At(N64_HEADER_SIZE + N64_BOOT_CODE_SIZE - 4, Run(BootTail(6102))))

(* Decompressed images. *)
DecA ==
    Image(DECOMPRESSED_ROM_SIZE, crcDecompressed, 6102,
          << Rec(VirtAt(0), VirtAt(0) + 12, VirtAt(0), 0),
             Rec(VirtAt(1), VirtAt(1) + 6, VirtAt(1), 0),
             NullRec(VirtAt(2), VirtAt(2) + 16),
             Rec(VirtAt(3), VirtAt(3) + 20, VirtAt(3), 0) >>,
          At(VirtAt(0), Run(TextAB)) @@ At(VirtAt(1), Run(TextRaw)) @@ At(VirtAt(3), Run(TextRun)))

DecB ==
    Image(DECOMPRESSED_ROM_SIZE, crcDecompressed, 6105,
          << Rec(VirtAt(0), VirtAt(0) + 20, VirtAt(0), 0),
             Rec(0, 0, 0, 0),
             Rec(VirtAt(2), VirtAt(2) + 6, VirtAt(2), 0) >>,
          At(VirtAt(0), Run(TextRun)) @@ At(VirtAt(2), Run(TextRaw)))

(* DecA with the bytes 22 11 00 at 0x100, in the boot block. *)
DecKeys == [DecA EXCEPT !.mem = At(256, Run(<< 34, 17 >>)) @@ @]

(* An image whose table is at tableAt instead of TableAt. *)
ImageAt(tableAt, size, sig, bootCode, recs, data) ==
    Buffer(size,
           At(0, Run(<< 128, 55, 18, 64 >>)) @@ At(CRC_OFFSET, Run(sig))
           @@ At(N64_HEADER_SIZE + N64_BOOT_CODE_SIZE - 4, Run(BootTail(bootCode)))
           @@ At(tableAt,
                 Run(TableBytes(<< Rec(0, 4192, 0, 0), Rec(4192, tableAt, 4192, 0),
                                   Rec(tableAt, tableAt + DMA_RECORD_SIZE * (3 + Len(recs)),
                                       tableAt, 0) >> \o recs)))
           @@ data)

(* A decompressed image whose record 4 is a file as long as the compressed *)
(* ROM, 0 but for its first bytes.                                         *)
DecFull ==
    Image(DECOMPRESSED_ROM_SIZE, crcDecompressed, 6102,
          << Rec(VirtAt(0), VirtAt(0) + 12, VirtAt(0), 0),
             Rec(COMPRESSED_ROM_SIZE \div 2, COMPRESSED_ROM_SIZE \div 2 + COMPRESSED_ROM_SIZE,
                 COMPRESSED_ROM_SIZE \div 2, 0),
             Rec(VirtAt(2), VirtAt(2) + 6, VirtAt(2), 0) >>,
          At(VirtAt(0), Run(TextAB)) @@ At(COMPRESSED_ROM_SIZE \div 2, Run(TextRaw))
          @@ At(VirtAt(2), Run(TextRaw)))

(* A decompressed image whose table of six records ends 48 bytes before    *)
(* the end of a compressed ROM.                                            *)
DecEdge ==
    ImageAt(COMPRESSED_ROM_SIZE - 9 * DMA_RECORD_SIZE, DECOMPRESSED_ROM_SIZE, crcDecompressed, 6105,
            << Rec(VirtAt(0), VirtAt(0) + 12, VirtAt(0), 0),
               Rec(VirtAt(1), VirtAt(1) + 20, VirtAt(1), 0),
               Rec(VirtAt(2), VirtAt(2) + 6, VirtAt(2), 0) >>,
            At(VirtAt(0), Run(TextAB)) @@ At(VirtAt(1), Run(TextRun)) @@ At(VirtAt(2), Run(TextRaw)))

(* A decompressed image with two files. *)
DecP ==
    Image(DECOMPRESSED_ROM_SIZE, crcDecompressed, 6102,
          << Rec(VirtAt(0), VirtAt(0) + 12, VirtAt(0), 0),
             Rec(VirtAt(1), VirtAt(1) + 6, VirtAt(1), 0) >>,
          At(VirtAt(0), Run(TextAB)) @@ At(VirtAt(1), Run(TextRaw)))

(***************************************************************************)
(* Patches, as the bytes pako.inflate returns: the magic, the              *)
(* configuration, the DMA update table with its terminator, the blocks.    *)
(***************************************************************************)
Half(n) == << (n \div 256) % 256, n % 256 >>

MakePatch(dmaOffset, lo, hi, xorAddress, entries, blocks) ==
    << 90, 80, 70, 118, 49 >> \o Word(dmaOffset) \o Word(lo) \o Word(hi) \o Word(xorAddress)
        \o entries \o << 255, 255 >> \o blocks

Entry(dmaIndex, fromFile, start, size) ==
    Half(dmaIndex) \o fromFile \o Word(start) \o << (size \div 65536) % 256 >> \o Half(size)

NewBlock(start, payload) == Word(start) \o Half(Len(payload)) \o payload

ContBlock(keySkip, payload) == << 255, keySkip >> \o Half(Len(payload)) \o payload

(* A patch of DecA that adds a file copied from another, empties one,      *)
(* writes a block in the XOR range and continues it after two skipped      *)
(* keys, a byte of the continuation being 0.                               *)
PatchGood ==
    MakePatch(TableAt, VirtAt(0), VirtAt(0) + 11, VirtAt(0) + 3,
              Entry(5, Word(VirtAt(1)), VirtAt(4), 8) \o Entry(6, NULL_WORD, VirtAt(3), 16),
              NewBlock(VirtAt(0) + 8, << 17, 0, 34, 51 >>) \o ContBlock(2, << 85, 0, 102 >>))

(* A patch without entries and blocks. *)
PatchEmpty == MakePatch(TableAt, VirtAt(0), VirtAt(0) + 11, VirtAt(0), << >>, << >>)

(* A patch whose entry gives record 5 a range that overlaps record 3.      *)
PatchOverlap ==
    MakePatch(TableAt, VirtAt(0), VirtAt(0) + 11, VirtAt(0),
              Entry(5, NULL_WORD, VirtAt(0) + 4, 16),
              NewBlock(VirtAt(0) + 4, << 1, 2 >>))

(* A patch whose dmaOffset is not where the table of DecA is.              *)
PatchElsewhere ==
    MakePatch(TableAt + 1024, VirtAt(0), VirtAt(0) + 11, VirtAt(0),
              Entry(4, NULL_WORD, VirtAt(5), 4),
              NewBlock(VirtAt(5), << 9 >>))

(* A patch whose entry places a new file of 8 bytes on record 5 itself.    *)
PatchOverTable ==
    MakePatch(TableAt, VirtAt(0), VirtAt(0) + 11, VirtAt(0),
              Entry(5, NULL_WORD, TableAt + 5 * DMA_RECORD_SIZE + 4, 8), << >>)

(* A patch with the XOR range 0x100..0x102 and the XOR address 0x100, and  *)
(* the block 05 00 06.                                                     *)
PatchExample ==
    MakePatch(TableAt, 256, 258, 256, << >>, NewBlock(VirtAt(5), << 5, 0, 6 >>))

(* A patch whose entry copies a file to a new place and whose blocks, a    *)
(* new one and its continuation, are written inside that file.             *)
PatchLayered ==
    MakePatch(TableAt, VirtAt(0), VirtAt(0) + 11, VirtAt(0),
              Entry(5, Word(VirtAt(1)), VirtAt(4), 8),
              NewBlock(VirtAt(4) + 2, << 17, 0 >>) \o ContBlock(1, << 34 >>))

(* A patch that starts with a continuation block. *)
PatchContFirst ==
    MakePatch(TableAt, VirtAt(0), VirtAt(0) + 11, VirtAt(0), << >>, ContBlock(1, << 0, 51 >>))

(* Patches that fail: another magic, a cut entry, a block cut in its       *)
(* header, a source file no record has, an XOR range of zeros, an XOR      *)
(* range outside the ROM, a file beyond the end of the ROM.                *)
PatchBadMagic == << 90, 80, 70, 118, 50 >> \o Rep(<< 0 >>, 18)

PatchCutEntry ==
    << 90, 80, 70, 118, 49 >> \o Word(TableAt) \o Word(VirtAt(0)) \o Word(VirtAt(0) + 11)
        \o Word(VirtAt(0)) \o << 0, 5, 255, 255 >>

PatchCutBlock ==
    MakePatch(TableAt, VirtAt(0), VirtAt(0) + 11, VirtAt(0), << >>, << 0, 0, 48 >>)

PatchNoSource ==
    MakePatch(TableAt, VirtAt(0), VirtAt(0) + 11, VirtAt(0),
              Entry(5, Word(VirtAt(7)), VirtAt(4), 8), << >>)

PatchZeroRange ==
    MakePatch(TableAt, VirtAt(6), VirtAt(6) + 3, VirtAt(6),
              << >>, NewBlock(VirtAt(5), << 9 >>))

PatchFarRange ==
    MakePatch(TableAt, DECOMPRESSED_ROM_SIZE, DECOMPRESSED_ROM_SIZE + 3, DECOMPRESSED_ROM_SIZE,
              << >>, NewBlock(VirtAt(5), << 9 >>))

PatchFarFile ==
    MakePatch(TableAt, VirtAt(0), VirtAt(0) + 11, VirtAt(0),
              Entry(5, NULL_WORD, DECOMPRESSED_ROM_SIZE - 4, 8), << >>)

(* A patch whose block is shorter than its header says, and one whose XOR  *)
(* address is before the range.                                            *)
PatchShortBlock ==
    MakePatch(TableAt, VirtAt(0), VirtAt(0) + 11, VirtAt(0), << >>,
              Word(VirtAt(5)) \o << 0, 3, 9 >>)

PatchBeforeRange ==
    MakePatch(TableAt, VirtAt(0) + 4, VirtAt(0) + 7, VirtAt(0),
              << >>, NewBlock(VirtAt(5), << 9, 8, 7, 6, 5, 4, 3 >>))

(***************************************************************************)
(* N64Crc.recalculate                                                      *)
(***************************************************************************)
(* The bytes of the two checksums: crc >>> 24, 16, 8, 0 of each.           *)
crcBytes(c) ==
    << c[1][1] \div 256, c[1][1] % 256, c[1][2] \div 256, c[1][2] % 256,
       c[2][1] \div 256, c[2][1] % 256, c[2][2] \div 256, c[2][2] % 256 >>

(* recalculate on a buffer whose boot block _cic maps to bootCode (0 when  *)
(* it knows none): the checksums are stored at N64_CRC1_OFFSET and         *)
(* N64_CRC2_OFFSET.                                                        *)
recalculate(buf, bootCode) ==
    IF buf.size < CHECKSUM_OFFSET + CHECKSUM_LENGTH THEN [buf |-> buf, err |-> "RangeError"]
    ELSE IF bootCode = 0 THEN [buf |-> buf, err |-> "could not calculate CIC"]
    ELSE LET stored[c \in (Nat \X Nat) \X (Nat \X Nat)] ==
                 [buf |-> [buf EXCEPT !.mem = Blit(@, N64_CRC1_OFFSET, Run(crcBytes(c)), 8)],
                  err |-> ""]
         IN  stored[calculate(buf.mem, bootCode)]

(***************************************************************************)
(* A session: a ROM is handed to a transformation (inflate, deflate or     *)
(* patch), which runs step by step; what it returns may be handed to the   *)
(* next transformation of the session.                                     *)
(***************************************************************************)
NoBuffer == Buffer(0, EmptyMem)

NoRom == [err |-> "", type |-> "", dmaOffset |-> 0, dmaSize |-> 0]

NoConf == [dmaOffset |-> 0, xorRange |-> << 0, 0 >>, xorAddress |-> 0]

(* The session that starts on job: the ROM, the transformations to run,    *)
(* the exclusions handed to a deflate that is run first and the patch.     *)
(* in0 is the input as it was handed over, orig the ROM the session        *)
(* started on, writes the addresses DMA records were written at, keys the  *)
(* XOR keys drawn with their addresses and first what the first of two     *)
(* runs of the same patch returned.                                        *)
Session(job) ==
    [ph |-> IF Head(job.kinds) = "patch" THEN "patcher" ELSE "new", kind |-> Head(job.kinds), jobs |-> Tail(job.kinds),
     in |-> job.rom, excl |-> job.excl, patch |-> job.patch,
     rom |-> NoRom, conf |-> NoConf, out |-> NoBuffer, i |-> 0, prev |-> 0,
     ops |-> << >>, exclusions |-> << >>, cur |-> 0, blockStart |-> 0, xorAddress |-> 0,
     err |-> "", in0 |-> job.rom, orig |-> job.rom, writes |-> {}, keys |-> << >>,
     first |-> NoBuffer, build |-> job.build]

(* A throw that nothing catches ends the transformation. *)
Fail(s, e) == [s EXCEPT !.ph = "failed", !.err = e]

(* A Writer that is built on the input buffer instead of a new one.        *)
storeAliased(s, buf) == [s EXCEPT !.out = buf, !.in = buf]

(* The output buffer after a write through its Writer or a view of it. *)
store(s, buf) == [s EXCEPT !.out = buf]

(* new Rom(buffer): no caller passes fixEndianness. *)
constructed(s, r) ==
    IF r.rom.err # "" THEN Fail(s, r.rom.err)
    ELSE [s EXCEPT !.rom = r.rom, !.in = r.buf, !.ph = "begin"]

(***************************************************************************)
(* Decompressor.inflate                                                    *)
(***************************************************************************)
(* The end of the set-up: the output is the input followed by 0, and is 0  *)
(* from the end of the table on.                                           *)
inflateFilled(s, f) ==
    IF f.err # "" THEN Fail(s, f.err)
    ELSE [store(s, f.buf) EXCEPT !.ph = "loop", !.i = DMA_INFO_RECORD_INDEX + 1]

(* The set-up of inflate: info is the record of the table and copied the   *)
(* result of writing the input to the new buffer.                          *)
inflateBegin(s, info, copied) ==
    IF info.err # "" THEN Fail(s, info.err)
    ELSE IF copied.err # "" THEN Fail(s, copied.err)
    ELSE inflateFilled(s, fill(copied.buf, DECOMPRESSED_ROM_SIZE - Num(info.virtualEnd),
                               Num(info.virtualEnd)))

(* A record written back with the physicalEnd it was read with.           *)
inflatedRecordKept(record) == [record EXCEPT !.physicalStart = record.virtualStart]

(* The record inflate writes back for a file it has placed. *)
inflatedRecord(record) ==
    [record EXCEPT !.physicalStart = record.virtualStart, !.physicalEnd = ZERO_WORD]

(* The end of an iteration: w is the result of writing the record.         *)
inflateStored(s, w) ==
    IF w.err # "" THEN Fail(store(s, w.buf), w.err)
    ELSE [store(s, w.buf) EXCEPT
             !.writes = @ \cup {<< s.i, s.rom.dmaOffset + s.i * DMA_RECORD_SIZE >>},
             !.i = @ + 1]

(* The file is in place (w is the result of placing it): the record is     *)
(* rewritten.                                                              *)
inflateWritten(s, record, w) ==
    IF w.err # "" THEN Fail(store(s, w.buf), w.err)
    ELSE inflateStored(s, writeDmaRecord(w.buf, s.rom, s.i, inflatedRecord(record)))

(* The end of _decompress, d being the state its loop ended in: it does    *)
(* not return when the loop cannot end.                                    *)
inflateDecoded(s, record, d) ==
    IF decompressStuck(d) THEN [s EXCEPT !.ph = "hang"]
    ELSE inflateWritten(s, record, [buf |-> [s.out EXCEPT !.mem = d.dst.mem], err |-> ""])

(* A compressed file of size bytes: the views of the source, from 16 bytes *)
(* after physicalStart on, and of the destination, from virtualStart on.   *)
inflateCompressed(s, record, size) ==
    IF Num(record.physicalStart) + 16 > s.in.size \/ Num(record.virtualStart) > s.out.size
    THEN Fail(s, "RangeError")
    ELSE inflateDecoded(s, record,
             decompressLoop(decompressInit(
                 View(s.in.mem, Num(record.physicalStart) + 16,
                      s.in.size - (Num(record.physicalStart) + 16)),
                 View(s.out.mem, Num(record.virtualStart),
                      s.out.size - Num(record.virtualStart)),
                 size)))

(* One iteration of the loop of inflate on the record read at index i.     *)
inflateRecord(s, record) ==
    IF record.err # "" THEN Fail(s, record.err)
    ELSE IF ~WordLT(record.physicalStart, Word(DECOMPRESSED_ROM_SIZE))
            \/ record.physicalEnd = NULL_WORD
    THEN [s EXCEPT !.i = @ + 1]
    ELSE IF record.physicalEnd = ZERO_WORD
    THEN inflateWritten([s EXCEPT !.exclusions = Append(@, s.i)], record,
             writeBytes(s.out,
                        Slice(s.in.mem, Num(record.physicalStart),
                              Num(record.virtualEnd) - Num(record.virtualStart)),
                        Num(record.virtualStart),
                        Num(record.virtualEnd) - Num(record.virtualStart)))
    ELSE inflateCompressed(s, record, Num(record.virtualEnd) - Num(record.virtualStart))

(* The end of a transformation: the checksums are recalculated in the      *)
(* output (r is the result) and the output is returned.                    *)
finish(s, r) ==
    IF r.err # "" THEN Fail(s, r.err)
    ELSE [store(s, r.buf) EXCEPT !.ph = "returned"]

NoSession == [ph |-> "none"]

NoKeys == [ph |-> "none"]

NoCodec == [phase |-> "none"]

NoAccess == [ph |-> "none"]

NoCompressor == [ph |-> "none"]

(***************************************************************************)
(* CompressionWorker                                                       *)
(***************************************************************************)
COPY == 0

COMPRESS == 1

NULL == 2

(* new Uint16Array(dmaCount).fill(COMPRESS, 3): the length is dmaCount     *)
(* without its fraction.                                                   *)
opsInit(rom) ==
    [k \in 0..(Max(0, dmaSize(rom)) \div DMA_RECORD_SIZE - 1) |-> IF k >= 3 THEN COMPRESS ELSE 0]

(* A store that keeps the operation an earlier entry gave index k.         *)
opsPutOnce(ops, k, op) ==
    IF k \in DOMAIN ops /\ ops[k] = COMPRESS THEN [ops EXCEPT ![k] = op] ELSE ops

(* The store ops[k] = op of a typed array: dropped outside the array.      *)
opsPut(ops, k, op) == IF k \in DOMAIN ops THEN [ops EXCEPT ![k] = op] ELSE ops

(* _checkExclusions: the loop from the entry at position k on.             *)
RECURSIVE checkExclusions(_, _, _, _)
checkExclusions(ops, rom, exclusions, k) ==
    IF k > Len(exclusions) THEN ops
    ELSE IF DMA_RECORD_SIZE * exclusions[k] > dmaSize(rom) - DMA_RECORD_SIZE
            \/ DMA_RECORD_SIZE * exclusions[k] < 0 - (dmaSize(rom) - DMA_RECORD_SIZE)
    THEN checkExclusions(ops, rom, exclusions, k + 1)
    ELSE IF exclusions[k] < 0
    THEN checkExclusions(opsPut(ops, 0 - exclusions[k], NULL), rom, exclusions, k + 1)
    ELSE checkExclusions(opsPut(ops, exclusions[k], COPY), rom, exclusions, k + 1)

(* The constructor after new Rom, and run up to its loop: the output is    *)
(* the input up to the end of the table followed by 0.                     *)
deflateBegin(s) ==
    IF dmaSize(s.rom) <= 0 - DMA_RECORD_SIZE THEN Fail(s, "RangeError")
    ELSE IF s.rom.dmaOffset + dmaSize(s.rom) < 0
            \/ s.rom.dmaOffset + dmaSize(s.rom) > s.in.size
            \/ s.rom.dmaOffset + dmaSize(s.rom) > COMPRESSED_ROM_SIZE
    THEN Fail([s EXCEPT !.ops = checkExclusions(opsInit(s.rom), s.rom, s.excl, 1)], "RangeError")
    ELSE [store(s, Buffer(COMPRESSED_ROM_SIZE,
                          At(0, Slice(s.in.mem, 0, s.rom.dmaOffset + dmaSize(s.rom)))))
             EXCEPT !.ops = checkExclusions(opsInit(s.rom), s.rom, s.excl, 1),
                    !.prev = s.rom.dmaOffset + dmaSize(s.rom),
                    !.ph = "loop", !.i = DMA_INFO_RECORD_INDEX + 1]

(* The record run writes back: the file is at prev; a compressed file ends *)
(* size bytes later, a copied one keeps the end it had, a null one has     *)
(* both addresses 0xFFFFFFFF.                                              *)
deflatedRecord(record, op, prev, size) ==
    IF op = COMPRESS
    THEN [record EXCEPT !.physicalStart = Word(prev), !.physicalEnd = Word(prev + size)]
    ELSE IF op = NULL
    THEN [record EXCEPT !.physicalStart = NULL_WORD, !.physicalEnd = NULL_WORD]
    ELSE [record EXCEPT !.physicalStart = Word(prev)]

(* The end of an iteration that wrote a record (w is the result): a throw  *)
(* inside the try block leaves the loop.                                   *)
deflateStored(s, w, size) ==
    IF w.err # "" THEN [store(s, w.buf) EXCEPT !.ph = "finish"]
    ELSE [store(s, w.buf) EXCEPT
             !.writes = @ \cup {<< s.i, s.rom.dmaOffset + s.i * DMA_RECORD_SIZE >>},
             !.prev = @ + size, !.i = @ + 1]

(* A try block that goes on to the record when the data did not fit.       *)
deflateWrittenAnyway(s, record, w, size) ==
    deflateStored(s, writeDmaRecord(w.buf, s.rom, s.i, record), size)

(* The try block after the data was written (w is the result).             *)
deflateWritten(s, record, w, size) ==
    IF w.err # "" THEN [store(s, w.buf) EXCEPT !.ph = "finish"]
    ELSE deflateStored(s, writeDmaRecord(w.buf, s.rom, s.i, record), size)

(* The second half of an iteration: the result of the operation op is the  *)
(* run data of size bytes.                                                 *)
deflatePlace(s, record, op, data, size) ==
    IF record.virtualStart # record.virtualEnd
    THEN deflateWritten(s, deflatedRecord(record, op, s.prev, size),
                        IF op = NULL THEN [buf |-> s.out, err |-> ""]
                        ELSE writeBytes(s.out, data, s.prev, size),
                        size)
    ELSE [s EXCEPT !.prev = @ + size, !.i = @ + 1]

(* The compression of a file, r being what Yaz0Compressor gave.            *)
deflateCompressed(s, record, r) ==
    IF ~r.ok THEN Fail(s, "RangeError")
    ELSE deflatePlace(s, record, COMPRESS, Run(r.result), Len(r.result))

(* The switch on the operation of the file, src being the view of it.      *)
deflateSwitch(s, record, src) ==
    IF s.i \notin DOMAIN s.ops \/ s.ops[s.i] \notin {COPY, COMPRESS, NULL}
    THEN Fail(s, "invalid operation")
    ELSE IF s.ops[s.i] = COPY
    THEN deflatePlace(s, record, COPY, Slice(src.mem, src.off, src.len), src.len)
    ELSE IF s.ops[s.i] = NULL
    THEN deflatePlace(s, record, NULL, EmptyMem, 0)
    ELSE deflateCompressed(s, record, Yaz0Compress(src))

(* One iteration of the loop of run on the record read at index i.         *)
deflateRecord(s, record) ==
    IF record.err # "" THEN Fail(s, record.err)
    ELSE IF Num(record.virtualEnd) - Num(record.virtualStart) < 0
            \/ Num(record.virtualEnd) > s.in.size
    THEN Fail(s, "RangeError")
    ELSE deflateSwitch(s, record,
                       View(s.in.mem, Num(record.virtualStart),
                            Num(record.virtualEnd) - Num(record.virtualStart)))

(***************************************************************************)
(* Patcher.  The patch is the sequence of bytes that pako.inflate gives;   *)
(* the Reader on it reads at a cursor counted from 0 and throws a          *)
(* RangeError when a read does not fit.                                    *)
(***************************************************************************)
HEADER_OFFSET == 0

PATCH_CONFIGURATION_OFFSET == 5

DMA_UPDATE_TABLE_OFFSET == 21

ZPF_MAGIC == << 90, 80, 70, 118, 49 >>

fits(patch, cur, n) == cur >= 0 /\ cur + n <= Len(patch)

readUint8(patch, cur) == patch[cur + 1]

readUint16(patch, cur) == patch[cur + 1] * 256 + patch[cur + 2]

readUint24(patch, cur) == readUint16(patch, cur) * 256 + patch[cur + 3]

readUint32(patch, cur) == << patch[cur + 1], patch[cur + 2], patch[cur + 3], patch[cur + 4] >>

(* readBytes(length) at the cursor: the slice is cut at the end of the     *)
(* patch.                                                                  *)
readBytes(patch, cur, length) ==
    [k \in 1..Max(0, Min(length, Len(patch) - cur)) |-> patch[cur + k]]

(* _validateHeader and _readPatchConfiguration, in the constructor.        *)
patcherNew(s) ==
    IF Len(s.patch) < 5 \/ [k \in 1..5 |-> s.patch[HEADER_OFFSET + k]] # ZPF_MAGIC
    THEN Fail(s, "not a valid ZPF file")
    ELSE IF ~fits(s.patch, PATCH_CONFIGURATION_OFFSET, 16) THEN Fail(s, "RangeError")
    ELSE [s EXCEPT !.ph = "new",
                   !.conf = [dmaOffset |-> Num(readUint32(s.patch, PATCH_CONFIGURATION_OFFSET)),
                             xorRange |-> << Num(readUint32(s.patch, PATCH_CONFIGURATION_OFFSET + 4)),
                                             Num(readUint32(s.patch, PATCH_CONFIGURATION_OFFSET + 8)) >>,
                             xorAddress |-> Num(readUint32(s.patch, PATCH_CONFIGURATION_OFFSET + 12))]]

(* patch up to _updateDmaTable: the output is a copy of the input.         *)
patchBegin(s) ==
    [store(s, Buffer(s.in.size, s.in.mem)) EXCEPT !.ph = "phaseA", !.cur = DMA_UPDATE_TABLE_OFFSET]

NoRecord ==
    [err |-> "undefined", virtualStart |-> ZERO_WORD, virtualEnd |-> ZERO_WORD,
     physicalStart |-> ZERO_WORD, physicalEnd |-> ZERO_WORD]

(* readDmaRecordByKey(key): the loop from index i on; err is "undefined"   *)
(* when it returns no record.                                              *)
RECURSIVE readDmaRecordByKey(_, _, _, _)
readDmaRecordByKey(buf, rom, key, i) ==
    IF ~belowDmaCount(rom, i) THEN NoRecord
    ELSE IF readDmaRecord(buf, rom, i).err # "" THEN readDmaRecord(buf, rom, i)
    ELSE IF readDmaRecord(buf, rom, i).virtualStart = ZERO_WORD
            /\ readDmaRecord(buf, rom, i).virtualEnd = ZERO_WORD
    THEN [readDmaRecord(buf, rom, i) EXCEPT !.err = "undefined"]
    ELSE IF readDmaRecord(buf, rom, i).virtualStart = key THEN readDmaRecord(buf, rom, i)
    ELSE readDmaRecordByKey(buf, rom, key, i + 1)

(* Patcher._writeDmaRecord: at the offset of the patch configuration.      *)
patchWriteDmaRecord(buf, conf, index, r) ==
    writeRecordAt(buf, conf.dmaOffset + index * DMA_RECORD_SIZE, r)

(* The rest of the file after its copy (w is the result of the copy) is    *)
(* filled.                                                                 *)
patchFilled(s, w, size, at) ==
    IF w.err # "" THEN [buf |-> w.buf, err |-> w.err] ELSE fill(w.buf, size, at)

(* The data of an entry: copySize bytes of the input at fromFile on, as    *)
(* far as the input goes, and 0 up to size; record is what                 *)
(* readDmaRecordByKey gave.                                                *)
patchCopy(s, buf, record, fromFile, start, size, copySize) ==
    patchFilled(s, writeBytes(buf, Slice(s.in.mem, fromFile, copySize), start,
                              Max(0, Min(s.in.size, fromFile + copySize) - Min(s.in.size, fromFile))),
                size - copySize, start + copySize)

(* The file of an entry, after its record was written (w is the result).   *)
patchFile(s, w, fromFile, start, size, record) ==
    IF w.err # "" THEN [buf |-> w.buf, err |-> w.err]
    ELSE IF fromFile = NULL_WORD THEN fill(w.buf, size, start)
    ELSE IF record.err = "undefined" THEN [buf |-> w.buf, err |-> "TypeError"]
    ELSE IF record.err # "" THEN [buf |-> w.buf, err |-> record.err]
    ELSE patchCopy(s, w.buf, record, Num(fromFile), start, size,
                   IF WordLT(Word(size), record.physicalStart) THEN size
                   ELSE Num(record.physicalStart))

(* The end of an iteration of _updateDmaTable (w is the result of its      *)
(* writes).                                                                *)
patchEntryDone(s, w, dmaIndex) ==
    IF w.err # "" THEN Fail(store(s, w.buf), w.err)
    ELSE [store(s, w.buf) EXCEPT
             !.writes = @ \cup {<< dmaIndex, s.conf.dmaOffset + dmaIndex * DMA_RECORD_SIZE >>},
             !.cur = @ + 13]

(* An entry of the DMA update table. *)
patchEntry(s, dmaIndex, fromFile, start, size) ==
    patchEntryDone(s,
        patchFile(s,
                  patchWriteDmaRecord(s.out, s.conf, dmaIndex,
                      [virtualStart |-> Word(start), virtualEnd |-> Word(start + size),
                       physicalStart |-> Word(start), physicalEnd |-> ZERO_WORD]),
                  fromFile, start, size,
                  IF fromFile = NULL_WORD THEN NoRecord
                  ELSE readDmaRecordByKey(s.in, s.rom, fromFile, 0)),
        dmaIndex)

(* One iteration of the loop of _updateDmaTable; after the terminator      *)
(* _patchDataBlocks starts.                                                *)
patchDmaEntry(s) ==
    IF ~fits(s.patch, s.cur, 2) THEN Fail(s, "RangeError")
    ELSE IF readUint16(s.patch, s.cur) = 65535
    THEN [s EXCEPT !.ph = "phaseB", !.cur = @ + 2, !.blockStart = 0,
                   !.xorAddress = s.conf.xorAddress]
    ELSE IF ~fits(s.patch, s.cur, 13) THEN Fail(s, "RangeError")
    ELSE patchEntry(s, readUint16(s.patch, s.cur), readUint32(s.patch, s.cur + 2),
                    Num(readUint32(s.patch, s.cur + 6)), readUint24(s.patch, s.cur + 10))

(* Keys read from the ROM as it is being patched.                         *)
keySourceOutput(s) == s.out

(* The Rom instance the XOR keys are read from: the one patch constructs   *)
(* on its input.                                                           *)
keySource(s) == s.in

(* The address of the next iteration of the loop of _getNextXorKey.        *)
xorStep(address, addressRange) ==
    IF address + 1 > addressRange[2] THEN addressRange[1] ELSE address + 1

(* _getNextXorKey(rom, address, addressRange): the loop, seen being the    *)
(* addresses it has read 0 at.  It throws when an address is outside the   *)
(* ROM and does not end when it comes back to an address it has read.      *)
RECURSIVE getNextXorKey(_, _, _, _)
getNextXorKey(rom, address, addressRange, seen) ==
    IF xorStep(address, addressRange) >= rom.size
    THEN [err |-> "RangeError", key |-> 0, address |-> xorStep(address, addressRange)]
    ELSE IF Get(rom.mem, xorStep(address, addressRange)) # 0
    THEN [err |-> "", key |-> Get(rom.mem, xorStep(address, addressRange)),
          address |-> xorStep(address, addressRange)]
    ELSE IF xorStep(address, addressRange) \in seen
    THEN [err |-> "hang", key |-> 0, address |-> xorStep(address, addressRange)]
    ELSE getNextXorKey(rom, xorStep(address, addressRange), addressRange,
                       seen \cup {xorStep(address, addressRange)})

(* The state of the decoding of a block: the address of the last key, the  *)
(* bytes decoded, the keys drawn. *)
blockState(s) == [err |-> "", xorAddress |-> s.xorAddress, data |-> << >>, keys |-> s.keys]

(* A key was drawn (xor is the result) for the source byte b; a skipped    *)
(* key decodes nothing.                                                    *)
blockKey(t, xor, b, skipped) ==
    IF xor.err # "" THEN [t EXCEPT !.err = xor.err]
    ELSE [t EXCEPT !.xorAddress = xor.address,
                   !.keys = Append(@, << xor.address, xor.key >>),
                   !.data = IF skipped THEN @ ELSE Append(@, xor8(ToByte(b), xor.key))]

(* The keySkip keys that a continuation block skips, from the k-th on.     *)
RECURSIVE skipKeys(_, _, _, _)
skipKeys(s, t, keySkip, k) ==
    IF t.err # "" \/ k >= keySkip THEN t
    ELSE skipKeys(s, blockKey(t, getNextXorKey(keySource(s), t.xorAddress, s.conf.xorRange, {}),
                              0, TRUE),
                  keySkip, k + 1)

(* The loop over the blockSize bytes of a block, from the i-th on; src is  *)
(* what readBytes gave, which may be shorter.                              *)
RECURSIVE decodeBlock(_, _, _, _, _)
decodeBlock(s, t, src, blockSize, i) ==
    IF t.err # "" \/ i >= blockSize THEN t
    ELSE IF i < Len(src) /\ src[i + 1] = 0
    THEN decodeBlock(s, [t EXCEPT !.data = Append(@, 0)], src, blockSize, i + 1)
    ELSE decodeBlock(s,
                     blockKey(t, getNextXorKey(keySource(s), t.xorAddress, s.conf.xorRange, {}),
                              IF i < Len(src) THEN src[i + 1] ELSE Undef, FALSE),
                     src, blockSize, i + 1)

(* An iteration that leaves blockStart where the block was written.        *)
patchBlockDoneStay(s, t, w, blockStart, blockSize, cur) ==
    IF w.err # "" THEN Fail([store(s, w.buf) EXCEPT !.keys = t.keys], w.err)
    ELSE [store(s, w.buf) EXCEPT !.keys = t.keys, !.xorAddress = t.xorAddress,
                                 !.blockStart = blockStart,
                                 !.cur = cur + blockSize]

(* The end of an iteration of _patchDataBlocks: t is the decoded block and *)
(* w the result of writing it.                                             *)
patchBlockDone(s, t, w, blockStart, blockSize, cur) ==
    IF w.err # "" THEN Fail([store(s, w.buf) EXCEPT !.keys = t.keys], w.err)
    ELSE [store(s, w.buf) EXCEPT !.keys = t.keys, !.xorAddress = t.xorAddress,
                                 !.blockStart = blockStart + blockSize,
                                 !.cur = cur + blockSize]

(* The block is decoded (t is the result) and written at blockStart.       *)
patchBlockWrite(s, t, blockStart, blockSize, cur) ==
    IF t.err = "hang" THEN [s EXCEPT !.ph = "hang", !.keys = t.keys]
    ELSE IF t.err # "" THEN Fail([s EXCEPT !.keys = t.keys], t.err)
    ELSE patchBlockDone(s, t, writeBytes(s.out, Run(t.data), blockStart, blockSize),
                        blockStart, blockSize, cur)

(* A block whose header is read: its bytes are at cur, t is the state      *)
(* after the keys it skips.                                                *)
patchBlockBody(s, t, blockStart, blockSize, cur) ==
    patchBlockWrite(s, decodeBlock(s, t, readBytes(s.patch, cur, blockSize), blockSize, 0),
                    blockStart, blockSize, cur)

(* One iteration of the loop of _patchDataBlocks.                          *)
patchBlock(s) ==
    IF readUint8(s.patch, s.cur) # 255
    THEN IF ~fits(s.patch, s.cur, 6) THEN Fail(s, "RangeError")
         ELSE patchBlockBody(s, blockState(s), Num(readUint32(s.patch, s.cur)),
                             readUint16(s.patch, s.cur + 4), s.cur + 6)
    ELSE IF ~fits(s.patch, s.cur, 4) THEN Fail(s, "RangeError")
    ELSE patchBlockBody(s, skipKeys(s, blockState(s), readUint8(s.patch, s.cur + 1), 0),
                        s.blockStart, readUint16(s.patch, s.cur + 2), s.cur + 4)

(* The end of patch in src/src/patcher.ts, the other Patcher of the        *)
(* repository: destBuffer is returned as _writeDataBlocks left it.         *)
patchReturn(s) == [s EXCEPT !.ph = "returned"]

(* What is returned is handed to the next transformation of the session;   *)
(* "again" hands the same input to the same Patcher once more.             *)
chain(s) ==
    [s EXCEPT !.ph = IF Head(s.jobs) = "patch" THEN "patcher" ELSE "new",
              !.kind = IF Head(s.jobs) = "again" THEN "patch" ELSE Head(s.jobs),
              !.jobs = Tail(@),
              !.in = IF Head(s.jobs) = "again" THEN @ ELSE s.out,
              !.in0 = IF Head(s.jobs) = "again" THEN s.in ELSE s.out,
              !.excl = IF s.kind = "inflate" THEN s.exclusions ELSE @,
              !.first = IF Head(s.jobs) = "again" THEN s.out ELSE NoBuffer,
              !.rom = NoRom, !.out = NoBuffer, !.i = 0, !.prev = 0, !.ops = << >>,
              !.exclusions = << >>, !.cur = 0, !.blockStart = 0, !.xorAddress = 0,
              !.writes = {}, !.keys = << >>]

(***************************************************************************)
(* The codec as a state machine: a slice is encoded token by token, the    *)
(* frame is built, and its stream is decoded token by token into a buffer  *)
(* of the slice's size.                                                    *)
(***************************************************************************)
YazMaxLen == 6

Iota(n, step, base) == [k \in 1..n |-> (base + step * (k - 1)) % 256]

(* 2n bytes in which no three consecutive bytes occur twice.               *)
Filler(n) == [k \in 1..(2 * n) |-> IF k % 2 = 1 THEN (k - 1) \div 2 ELSE 200]

YazShort == UNION {[1..n -> {65, 66}] : n \in 0..YazMaxLen}

YazLong ==
    { Rep(<<65>>, 17), Rep(<<65>>, 20), Rep(<<65>>, 275), Rep(<<65>>, 300),
      Rep(<<1, 2, 3>>, 12), Iota(40, 1, 0), Iota(24, 7, 3),
      <<9, 9, 9, 9, 7, 9, 9, 9, 9, 9, 9, 9, 5>>,
      <<1, 2, 3, 4, 9, 2, 3, 4, 5, 6, 8, 1, 2, 3, 4, 5, 6>>,
      <<250, 251, 252, 253>> \o Filler(140) \o <<250, 251, 252, 253, 1>> \o Rep(<<65>>, 30),
      Rep(<<65>>, 8) \o <<66>> \o Rep(<<65>>, 30) }

YazInputs == YazShort \cup YazLong

YazInit ==
    \E s \in YazInputs :
        /\ yz = [phase |-> "encode", input |-> s, e |-> encodeInit(SeqView(s)),
                 result |-> << >>, d |-> << >>]
        /\ rs = NoSession
        /\ cw = NoCompressor
        /\ ks = NoKeys
        /\ bs = NoAccess

(* 3n bytes in which no three consecutive bytes occur twice, for inputs    *)
(* longer than the window.                                                 *)
Groups(n) ==
    [k \in 1..(3 * n) |-> CASE k % 3 = 1 -> ((k - 1) \div 3) \div 200
                            [] k % 3 = 2 -> ((k - 1) \div 3) % 200
                            [] OTHER -> 255]

(* Four bytes that occur again WINDOW_SIZE bytes later, which is the       *)
(* farthest a match can be, and WINDOW_SIZE + 1 bytes later, which is out  *)
(* of the window.                                                          *)
FarInputs ==
    {<< 250, 251, 252, 253 >> \o Groups((WINDOW_SIZE - 4) \div 3) \o << 250, 251, 252, 253, 250 >>,
     << 250, 251, 252, 253 >> \o Groups((WINDOW_SIZE - 4) \div 3)
         \o << 254, 250, 251, 252, 253, 250 >>}

(* The encoder after the first p iterations of the while loop of _encode   *)
(* on a source whose first p + 2 bytes hold no three bytes twice: every    *)
(* search returned 0 at position 0, every iteration stored a literal, and  *)
(* every eighth stored the code byte 0xFF and reserved the next one.       *)
literalRun(src, p) ==
    LET off == encodeInit(src).dst.off
    IN  [encodeInit(src) EXCEPT
            !.srcPos = p,
            !.dst = [@ EXCEPT !.mem =
                        [a \in {off + 9 * (j \div 8) + 1 + (j % 8) :
                                   j \in {i \in 0..(p - 1) : ViewGet(src, i) # 0}}
                                \cup {off + 9 * g : g \in 0..((p \div 8) - 1)} |->
                            IF (a - off) % 9 = 0 THEN 255
                            ELSE ViewGet(src, 8 * ((a - off) \div 9) + ((a - off) % 9) - 1)]],
            !.cbPos = 9 * (p \div 8),
            !.dstPos = 9 * (p \div 8) + 1 + (p % 8),
            !.bitmask = 128 \div (2 ^ (p % 8)),
            !.cb = 256 - 2 * (128 \div (2 ^ (p % 8))),
            !.tokens = [j \in 1..p |-> << j - 1, 0, 0 >>]]

(* Where the encoder is taken up on the inputs of FarInputs. *)
FarStart == WINDOW_SIZE - 8

FarInit ==
    \E s \in FarInputs :
        /\ yz = [phase |-> "encode", input |-> s, e |-> literalRun(SeqView(s), FarStart),
                 result |-> << >>, d |-> << >>]
        /\ rs = NoSession
        /\ cw = NoCompressor
        /\ ks = NoKeys
        /\ bs = NoAccess

(* Inputs without a repeated sequence of three bytes, of 4495 and of 4611  *)
(* bytes, which are encoded as literals only.                              *)
BigInputs ==
    {Groups(1498) \o << 254 >>, Groups(1537)}

(* Where the encoder is taken up on an input of BigInputs: at the last     *)
(* start of a group that leaves at least three bytes.                      *)
BigStart(s) == 8 * ((Len(s) - 3) \div 8)

BigInit ==
    \E s \in BigInputs :
        /\ yz = [phase |-> "encode", input |-> s, e |-> literalRun(SeqView(s), BigStart(s)),
                 result |-> << >>, d |-> << >>]
        /\ rs = NoSession
        /\ cw = NoCompressor
        /\ ks = NoKeys
        /\ bs = NoAccess

(* One token is emitted.                                                   *)
YazEncodeToken ==
    /\ yz.phase = "encode"
    /\ yz.e.srcPos < yz.e.src.len
    /\ yz' = [yz EXCEPT !.e = encodeStep(@)]
    /\ UNCHANGED << rs, ks, bs, cw >>

(* The frame is returned and the decoder is set up on the bytes after the  *)
(* 16-byte header, with a destination of the slice's size.                 *)
YazEncodeFinish ==
    /\ yz.phase = "encode"
    /\ yz.e.srcPos >= yz.e.src.len
    /\ LET r == encodeFinish(yz.e)
           n == Len(yz.input)
       IN yz' = IF r.ok
                THEN [yz EXCEPT !.phase = "decode", !.result = r.result,
                                !.d = decompressInit(
                                         View(SeqView(r.result).mem, 16, Len(r.result) - 16),
                                         View(EmptyMem, 0, n), n)]
                ELSE [yz EXCEPT !.phase = "encodeFailed"]
    /\ UNCHANGED << rs, ks, bs, cw >>

(* One token is decoded.                                                   *)
YazDecodeToken ==
    /\ yz.phase = "decode"
    /\ yz.d.dstPos < yz.d.size
    /\ ~decompressStuck(yz.d)
    /\ yz' = [yz EXCEPT !.d = decompressStep(@)]
    /\ UNCHANGED << rs, ks, bs, cw >>

YazDecodeDone ==
    /\ yz.phase = "decode"
    /\ yz.d.dstPos >= yz.d.size
    /\ yz' = [yz EXCEPT !.phase = "done"]
    /\ UNCHANGED << rs, ks, bs, cw >>

YazDecodeHang ==
    /\ yz.phase = "decode"
    /\ decompressStuck(yz.d)
    /\ yz' = [yz EXCEPT !.phase = "hang"]
    /\ UNCHANGED << rs, ks, bs, cw >>


(***************************************************************************)
(* The decoder on arbitrary streams: the bytes of a stream, well formed or *)
(* not, are decoded into a view that starts at the file's virtual start    *)
(* and runs to the end of the output buffer, as inflate sets it up, so the *)
(* view is longer than the declared size.                                  *)
(***************************************************************************)
DecMaxLen == 3

DecMaxSize == 3

(* Bytes that make code bytes, literals and back-references of both forms. *)
DecBytes == {0, 16, 65, 128}

DecStreams == UNION {[1..n -> DecBytes] : n \in 0..DecMaxLen}

DecInit ==
    \E s \in DecStreams, size \in 1..DecMaxSize :
        /\ yz = [phase |-> "decode", input |-> s, e |-> << >>, result |-> s,
                 d |-> decompressInit(SeqView(s), View(EmptyMem, 0, size + 2), size)]
        /\ rs = NoSession
        /\ cw = NoCompressor
        /\ ks = NoKeys
        /\ bs = NoAccess
(***************************************************************************)
(* The sessions.                                                           *)
(***************************************************************************)
(* A job: the input, the transformations to run, the exclusions and the    *)
(* patch, and which of the two Patcher classes of the repository is used.  *)
Job(rom, kinds, excl, patch) ==
    [rom |-> rom, kinds |-> kinds, excl |-> excl, patch |-> patch, build |-> "part_007"]

Earlier(job) == [job EXCEPT !.build = "patcher.ts"]

Jobs ==
    { Job(RomA, << "inflate" >>, << >>, << >>),
      Job(RomB, << "inflate" >>, << >>, << >>),
      Job(RomC, << "inflate" >>, << >>, << >>),
      Job(RomD, << "inflate" >>, << >>, << >>),
      Job(RomE, << "inflate" >>, << >>, << >>),
      Job(RomUnknownCic, << "inflate" >>, << >>, << >>),
      Job(RomNoTable, << "inflate" >>, << >>, << >>),
      Job(Swapped16(RomA), << "inflate" >>, << >>, << >>),
      Job(Swapped32(RomA), << "inflate" >>, << >>, << >>),
      Job(DecA, << "inflate" >>, << >>, << >>),
      Job(DecA, << "deflate" >>, << >>, << >>),
      Job(DecA, << "deflate" >>, << 3, 0 - 6 >>, << >>),
      Job(DecA, << "deflate" >>, << 0 - 3, 4, 9, 0 - 9 >>, << >>),
      Job(DecB, << "deflate" >>, << >>, << >>),
      Job(DecB, << "deflate" >>, << 5 >>, << >>),
      Job(RomA, << "deflate" >>, << >>, << >>),
      Job(DecFull, << "deflate" >>, << 4 >>, << >>),
      Job(DecEdge, << "deflate" >>, << >>, << >>),
      Job(DecEdge, << "deflate" >>, << 0 - 3, 4 >>, << >>),
      Job(RomA, << "inflate", "deflate" >>, << >>, << >>),
      Job(RomB, << "inflate", "deflate" >>, << >>, << >>),
      Job(RomA, << "inflate", "patch" >>, << >>, PatchGood),
      Job(RomA, << "inflate", "patch", "deflate" >>, << >>, PatchGood),
      Job(DecA, << "patch", "again" >>, << >>, PatchGood),
      Job(DecA, << "patch", "deflate" >>, << >>, PatchEmpty),
      Job(DecA, << "patch", "inflate" >>, << >>, PatchOverlap),
      Job(DecA, << "patch" >>, << >>, PatchElsewhere),
      Job(DecA, << "patch" >>, << >>, PatchOverTable),
      Job(DecA, << "patch" >>, << >>, PatchContFirst),
      Job(DecA, << "patch" >>, << >>, PatchLayered),
      Job(DecKeys, << "patch" >>, << >>, PatchExample),
      Job(DecA, << "patch" >>, << >>, PatchBadMagic),
      Job(DecA, << "patch" >>, << >>, PatchCutEntry),
      Job(DecA, << "patch" >>, << >>, PatchCutBlock),
      Job(DecA, << "patch" >>, << >>, PatchNoSource),
      Job(DecA, << "patch" >>, << >>, PatchZeroRange),
      Job(DecA, << "patch" >>, << >>, PatchFarRange),
      Job(DecA, << "patch" >>, << >>, PatchFarFile),
      Job(DecA, << "patch" >>, << >>, PatchShortBlock),
      Job(DecA, << "patch" >>, << >>, PatchBeforeRange),
      Job(DecB, << "patch" >>, << >>, PatchGood),
      Job(RomA, << "patch" >>, << >>, PatchGood),
      Earlier(Job(DecA, << "patch", "again" >>, << >>, PatchGood)),
      Earlier(Job(DecA, << "patch", "inflate" >>, << >>, PatchOverlap)),
      Earlier(Job(DecA, << "patch", "deflate" >>, << >>, PatchElsewhere)) }

(* The exclusion lists of up to ExclMaxLen entries for a table of five     *)
(* records: both files as index and as its negative, an index below 3 and  *)
(* its negative, and an index beyond the table and its negative.           *)
ExclMaxLen == 2

ExclValues == {0 - 5, 0 - 4, 0 - 3, 0 - 1, 0, 3, 4, 5}

ExclLists ==
    UNION {[1..n -> ExclValues] : n \in 0..ExclMaxLen}

PolicyInit ==
    /\ \E excl \in ExclLists : rs = Session(Job(DecP, << "deflate" >>, excl, << >>))
    /\ yz = NoCodec
    /\ cw = NoCompressor
    /\ ks = NoKeys
    /\ bs = NoAccess

Init ==
    /\ \E job \in Jobs : rs = Session(job)
    /\ yz = NoCodec
    /\ cw = NoCompressor
    /\ ks = NoKeys
    /\ bs = NoAccess

(* new Rom(buffer), in the constructor of Decompressor and of              *)
(* CompressionWorker and at the start of Patcher.patch.                    *)
Construct ==
    /\ rs.ph = "new"
    /\ rs' = constructed(rs, newRom(rs.in, FALSE, validateRom(rs.in)))
    /\ UNCHANGED << yz, ks, bs, cw >>

(* inflate up to its loop. *)
InflateBegin ==
    /\ rs.ph = "begin" /\ rs.kind = "inflate"
    /\ rs' = inflateBegin(rs, readDmaRecord(rs.in, rs.rom, DMA_INFO_RECORD_INDEX),
                          writeBytes(Buffer(DECOMPRESSED_ROM_SIZE, EmptyMem), rs.in.mem, 0, rs.in.size))
    /\ UNCHANGED << yz, ks, bs, cw >>

(* One iteration of the loop of inflate. *)
InflateRecord ==
    /\ rs.ph = "loop" /\ rs.kind = "inflate"
    /\ belowDmaCount(rs.rom, rs.i)
    /\ rs' = inflateRecord(rs, readDmaRecord(rs.in, rs.rom, rs.i))
    /\ UNCHANGED << yz, ks, bs, cw >>

(* The constructor of CompressionWorker after new Rom, and run up to its   *)
(* loop.                                                                   *)
DeflateBegin ==
    /\ rs.ph = "begin" /\ rs.kind = "deflate"
    /\ rs' = deflateBegin(rs)
    /\ UNCHANGED << yz, ks, bs, cw >>

(* One iteration of the loop of run. *)
DeflateRecord ==
    /\ rs.ph = "loop" /\ rs.kind = "deflate"
    /\ belowDmaCount(rs.rom, rs.i)
    /\ rs' = deflateRecord(rs, readDmaRecord(rs.in, rs.rom, rs.i))
    /\ UNCHANGED << yz, ks, bs, cw >>

(* new Patcher(patchData) *)
PatcherNew ==
    /\ rs.ph = "patcher"
    /\ rs' = patcherNew(rs)
    /\ UNCHANGED << yz, ks, bs, cw >>

(* patch after new Rom, up to the loop of _updateDmaTable.                 *)
PatchBegin ==
    /\ rs.ph = "begin" /\ rs.kind = "patch"
    /\ rs' = patchBegin(rs)
    /\ UNCHANGED << yz, ks, bs, cw >>

(* One iteration of the loop of _updateDmaTable. *)
PatchDmaEntry ==
    /\ rs.ph = "phaseA"
    /\ rs' = patchDmaEntry(rs)
    /\ UNCHANGED << yz, ks, bs, cw >>

(* One iteration of the loop of _patchDataBlocks. *)
PatchBlock ==
    /\ rs.ph = "phaseB" /\ rs.cur < Len(rs.patch)
    /\ rs' = patchBlock(rs)
    /\ UNCHANGED << yz, ks, bs, cw >>

(* The caller hands what was returned to the next transformation.          *)
Chain ==
    /\ rs.ph = "returned" /\ rs.jobs # << >>
    /\ rs' = chain(rs)
    /\ UNCHANGED << yz, ks, bs, cw >>

(* The patch is applied by the Patcher of src/src/patcher.ts.              *)
PatchReturn ==
    /\ rs.ph = "phaseB" /\ rs.cur >= Len(rs.patch) /\ rs.build = "patcher.ts"
    /\ rs' = patchReturn(rs)
    /\ UNCHANGED << yz, ks, bs, cw >>

(* The loop of inflate or of run has ended, or the patch is applied: the   *)
(* checksums are recalculated and the output is returned.                  *)
Finish ==
    /\ \/ rs.ph = "loop" /\ ~belowDmaCount(rs.rom, rs.i)
       \/ rs.ph = "finish"
       \/ rs.ph = "phaseB" /\ rs.cur >= Len(rs.patch) /\ rs.build = "part_007"
    /\ rs' = finish(rs, recalculate(rs.out, cic(crc32(View(rs.out.mem, N64_HEADER_SIZE,
                                                            N64_BOOT_CODE_SIZE)))))
    /\ UNCHANGED << yz, ks, bs, cw >>

(***************************************************************************)
(* Compressor and its Worker.  The page and the worker each run one task   *)
(* at a time from a queue of messages; the two run side by side.  A        *)
(* message carries, beside what the code puts in it, the number of the     *)
(* deflate call its StartCompression came from (req), which the code does  *)
(* not have and which only the properties read.                            *)
(***************************************************************************)
MaxCalls == 2

MaxFiles == 2

NoThrow == 0 - 1

Idle == [req |-> 0]

(* The ROMs handed to deflate, by what the worker does with them: the      *)
(* number of iterations of the loop of run, each with one call of          *)
(* _onProgress, and after how many of them the handler throws (0: in the   *)
(* constructor of CompressionWorker; files: after the loop).               *)
Requests ==
    {r \in [files : 0..MaxFiles, throws : {NoThrow} \cup 0..MaxFiles] : r.throws <= r.files}

(* worker.postMessage and self.postMessage: the message is put at the end  *)
(* of the queue of the other side.                                         *)
postMessage(queue, message) == Append(queue, message)

(* resolve and reject of promise p, called for the message of request req: *)
(* a promise that is settled stays as it is.                               *)
settle(promises, p, state, req) ==
    IF promises[p].state # "pending" THEN promises
    ELSE [promises EXCEPT ![p] = [state |-> state, by |-> req]]

(* new Compressor() *)
WorkerInit ==
    /\ cw = [ph |-> "run", promises |-> << >>, onmessage |-> 0, onerror |-> 0, result |-> 0,
             inbox |-> << >>, running |-> Idle, outbox |-> << >>, delivered |-> << >>]
    /\ yz = NoCodec
    /\ rs = NoSession
    /\ ks = NoKeys
    /\ bs = NoAccess

(* deflate(buffer, exclusions): the executor of the new promise stores the *)
(* two handlers in the worker and posts StartCompression.                  *)
Deflate ==
    /\ cw.ph = "run" /\ Len(cw.promises) < MaxCalls
    /\ \E request \in Requests :
          cw' = [cw EXCEPT !.promises = Append(@, [state |-> "pending", by |-> 0]),
                           !.onmessage = Len(cw.promises) + 1,
                           !.onerror = Len(cw.promises) + 1,
                           !.inbox = postMessage(@, [type |-> "StartCompression",
                                                     req |-> Len(cw.promises) + 1,
                                                     files |-> request.files,
                                                     throws |-> request.throws])]
    /\ UNCHANGED << yz, rs, ks, bs >>

(* self.onmessage up to the loop of run: the message is taken from the     *)
(* queue of the worker and the CompressionWorker is constructed.           *)
WorkerStart ==
    /\ cw.ph = "run" /\ cw.running = Idle /\ cw.inbox # << >>
    /\ cw' = [cw EXCEPT !.inbox = Tail(@),
                        !.running = [req |-> Head(cw.inbox).req, files |-> Head(cw.inbox).files,
                                     throws |-> Head(cw.inbox).throws, i |-> 0]]
    /\ UNCHANGED << yz, rs, ks, bs >>

(* A throw in self.onmessage, which nothing catches, ends the task; the    *)
(* Worker object of the page gets an error event.                          *)
WorkerThrow ==
    /\ cw.ph = "run" /\ cw.running # Idle /\ cw.running.i = cw.running.throws
    /\ cw' = [cw EXCEPT !.running = Idle,
                        !.outbox = postMessage(@, [type |-> "Error", req |-> cw.running.req,
                                                   file |-> 0])]
    /\ UNCHANGED << yz, rs, ks, bs >>

(* One iteration of the loop of run: worker.onProgress posts Progress.     *)
WorkerProgress ==
    /\ cw.ph = "run" /\ cw.running # Idle /\ cw.running.i # cw.running.throws
    /\ cw.running.i < cw.running.files
    /\ cw' = [cw EXCEPT !.running.i = @ + 1,
                        !.outbox = postMessage(@, [type |-> "Progress", req |-> cw.running.req,
                                                   file |-> cw.running.i + 1])]
    /\ UNCHANGED << yz, rs, ks, bs >>

(* run has returned: Finished is posted with the result.                   *)
WorkerFinished ==
    /\ cw.ph = "run" /\ cw.running # Idle /\ cw.running.i # cw.running.throws
    /\ cw.running.i >= cw.running.files
    /\ cw' = [cw EXCEPT !.running = Idle,
                        !.outbox = postMessage(@, [type |-> "Finished", req |-> cw.running.req,
                                                   file |-> 0])]
    /\ UNCHANGED << yz, rs, ks, bs >>

(* The onmessage handler that deflate stored last is called with the first *)
(* message of the queue of the page: Progress goes to _onProgress,         *)
(* Finished sets _result and resolves the promise of the handler.          *)
OnMessage ==
    /\ cw.ph = "run" /\ cw.outbox # << >> /\ Head(cw.outbox).type # "Error"
    /\ cw' = [cw EXCEPT !.outbox = Tail(@),
                        !.delivered = Append(@, [type |-> Head(cw.outbox).type,
                                                 req |-> Head(cw.outbox).req,
                                                 file |-> Head(cw.outbox).file,
                                                 to |-> cw.onmessage]),
                        !.result = IF Head(cw.outbox).type = "Finished"
                                   THEN Head(cw.outbox).req ELSE @,
                        !.promises = IF Head(cw.outbox).type = "Finished"
                                     THEN settle(@, cw.onmessage, "resolved", Head(cw.outbox).req)
                                     ELSE @]
    /\ UNCHANGED << yz, rs, ks, bs >>

(* The onerror handler that deflate stored last rejects its promise.       *)
OnError ==
    /\ cw.ph = "run" /\ cw.outbox # << >> /\ Head(cw.outbox).type = "Error"
    /\ cw' = [cw EXCEPT !.outbox = Tail(@),
                        !.delivered = Append(@, [type |-> Head(cw.outbox).type,
                                                 req |-> Head(cw.outbox).req,
                                                 file |-> Head(cw.outbox).file,
                                                 to |-> cw.onerror]),
                        !.promises = settle(@, cw.onerror, "rejected", Head(cw.outbox).req)]
    /\ UNCHANGED << yz, rs, ks, bs >>
(***************************************************************************)
(* The XOR keystream on its own: _getNextXorKey step by step, called again *)
(* from the address it returned, on small ROMs and every small             *)
(* configuration.                                                          *)
(***************************************************************************)
KeyMaxAddr == 4

MaxKeys == 3

KeyRoms ==
    { Buffer(6, Run(<< 0, 5, 0, 0, 9, 7 >>)),
      Buffer(6, Run(<< 1, 2, 3, 4, 5, 6 >>)),
      Buffer(6, Run(<< 0, 0, 0, 0, 0, 8 >>)),
      Buffer(6, EmptyMem) }

KeyInit ==
    /\ \E rom \in KeyRoms, lo \in 0..KeyMaxAddr, hi \in 0..KeyMaxAddr, start \in 0..KeyMaxAddr :
          ks = [ph |-> "scan", rom |-> rom, range |-> << lo, hi >>, start |-> start,
                address |-> start, key |-> 0, keys |-> << >>]
    /\ yz = NoCodec
    /\ rs = NoSession
    /\ cw = NoCompressor
    /\ bs = NoAccess

(* One iteration of the loop of _getNextXorKey: the address is stepped and *)
(* the byte there is read, which throws outside the ROM.                   *)
keyStep(k, address) ==
    IF address >= k.rom.size THEN [k EXCEPT !.ph = "failed", !.address = address]
    ELSE [k EXCEPT !.address = address, !.key = Get(k.rom.mem, address),
                   !.ph = IF Get(k.rom.mem, address) # 0 THEN "found" ELSE "scan"]

KeyStep ==
    /\ ks.ph = "scan"
    /\ ks' = keyStep(ks, xorStep(ks.address, ks.range))
    /\ UNCHANGED << yz, rs, bs, cw >>

(* The loop has ended: {key, address} is returned, and the caller asks     *)
(* for the next key from that address.                                     *)
keyReturn(k) ==
    [k EXCEPT !.keys = Append(@, << k.address, k.key >>), !.key = 0,
              !.ph = IF Len(k.keys) + 1 < MaxKeys THEN "scan" ELSE "done"]

KeyReturn ==
    /\ ks.ph = "found"
    /\ ks' = keyReturn(ks)
    /\ UNCHANGED << yz, rs, bs, cw >>

(***************************************************************************)
(* Reader and Writer on a small buffer (SeekableBuffer): one access, at an *)
(* offset or at the cursor, after any number of seeks.                     *)
(***************************************************************************)
BufMaxSize == 4

Offsets == (0 - 1)..(BufMaxSize + 1)

(* DataView.getUint8/16/32(at): the n bytes at at, or a RangeError.        *)
viewGet(buf, at, n) ==
    IF at < 0 \/ at + n > buf.size THEN [err |-> "RangeError", out |-> << >>]
    ELSE [err |-> "", out |-> [k \in 1..n |-> Get(buf.mem, at + k - 1)]]

(* ArrayBuffer.slice(begin, end): a negative index counts from the end and *)
(* both indices are cut to the buffer.                                     *)
bufferSlice(buf, begin, end) ==
    LET first == IF begin < 0 THEN Max(buf.size + begin, 0) ELSE Min(begin, buf.size)
        final == IF end < 0 THEN Max(buf.size + end, 0) ELSE Min(end, buf.size)
    IN  [k \in 1..Max(final - first, 0) |-> Get(buf.mem, first + k - 1)]

(* The buffer of n bytes 1, 2, ..., n. *)
Counted(n) == Buffer(n, Run(Iota(n, 1, 1)))

BufInit ==
    /\ \E size \in 0..BufMaxSize :
          bs = [ph |-> "open", buffer |-> Counted(size), cursor |-> 0, op |-> "new",
                at |-> 0, n |-> 0, out |-> << >>, err |-> ""]
    /\ yz = NoCodec
    /\ rs = NoSession
    /\ cw = NoCompressor
    /\ ks = NoKeys

(* seek(pos, whence) *)
Seek ==
    /\ bs.ph = "open"
    /\ \E pos \in Offsets, whence \in {"begin", "current", "end"} :
          LET cursor == CASE whence = "begin" -> pos
                          [] whence = "current" -> bs.cursor + pos
                          [] whence = "end" -> bs.buffer.size + pos
          IN  /\ cursor \in Offsets
              /\ bs' = [bs EXCEPT !.cursor = cursor]
    /\ UNCHANGED << yz, rs, ks, cw >>

(* The state after an access op of n bytes at pos that gave r = [out, err] *)
(* and moved the cursor by step.                                           *)
accessed(op, pos, n, r, buffer, step) ==
    [bs EXCEPT !.ph = IF r.err = "" THEN "returned" ELSE "failed",
               !.op = op, !.at = pos, !.n = n, !.out = r.out, !.err = r.err,
               !.buffer = buffer, !.cursor = @ + step]

(* A DataView read of n bytes at the offset or at the cursor; the cursor   *)
(* moves after the read in the cursor form.                                *)
viewRead(op, n, absolute, offset) ==
    LET pos == IF absolute THEN offset ELSE bs.cursor
        r == viewGet(bs.buffer, pos, n)
    IN  accessed(op, pos, n, r, bs.buffer, IF absolute \/ r.err # "" THEN 0 ELSE n)

(* readUint8(offset?) *)
ReadUint8 ==
    /\ bs.ph = "open"
    /\ \E absolute \in BOOLEAN, offset \in Offsets :
          bs' = viewRead("readUint8", 1, absolute, offset)
    /\ UNCHANGED << yz, rs, ks, cw >>

(* readUint16(offset?) *)
ReadUint16 ==
    /\ bs.ph = "open"
    /\ \E absolute \in BOOLEAN, offset \in Offsets :
          bs' = viewRead("readUint16", 2, absolute, offset)
    /\ UNCHANGED << yz, rs, ks, cw >>

(* readUint32(offset?) *)
ReadUint32 ==
    /\ bs.ph = "open"
    /\ \E absolute \in BOOLEAN, offset \in Offsets :
          bs' = viewRead("readUint32", 4, absolute, offset)
    /\ UNCHANGED << yz, rs, ks, cw >>

(* readUint24(offset?): getUint16(pos), then getUint8(pos + 2).            *)
ReadUint24 ==
    /\ bs.ph = "open"
    /\ \E absolute \in BOOLEAN, offset \in Offsets :
          LET pos == IF absolute THEN offset ELSE bs.cursor
              a == viewGet(bs.buffer, pos, 2)
              b == viewGet(bs.buffer, pos + 2, 1)
              r == IF a.err # "" THEN a ELSE IF b.err # "" THEN b
                   ELSE [err |-> "", out |-> a.out \o b.out]
          IN  bs' = accessed("readUint24", pos, 3, r, bs.buffer,
                             IF absolute \/ r.err # "" THEN 0 ELSE 3)
    /\ UNCHANGED << yz, rs, ks, cw >>

(* readBytes(length, offset?): a slice of the buffer; the cursor moves by  *)
(* length in the cursor form.                                              *)
ReadBytes ==
    /\ bs.ph = "open"
    /\ \E absolute \in BOOLEAN, offset \in Offsets, length \in 0..(BufMaxSize + 1) :
          LET pos == IF absolute THEN offset ELSE bs.cursor
          IN  bs' = accessed("readBytes", pos, length,
                             [err |-> "", out |-> bufferSlice(bs.buffer, pos, pos + length)],
                             bs.buffer, IF absolute THEN 0 ELSE length)
    /\ UNCHANGED << yz, rs, ks, cw >>

(* writeUint32(value, offset?) *)
WriteUint32 ==
    /\ bs.ph = "open"
    /\ \E absolute \in BOOLEAN, offset \in Offsets :
          LET pos == IF absolute THEN offset ELSE bs.cursor
              r == writeUint32(bs.buffer, pos, << 170, 187, 204, 221 >>)
          IN  bs' = accessed("writeUint32", pos, 4, [err |-> r.err, out |-> << >>], r.buf,
                             IF absolute \/ r.err # "" THEN 0 ELSE 4)
    /\ UNCHANGED << yz, rs, ks, cw >>

(* writeBytes(data, offset?, size?): data holds one or two bytes 9.        *)
WriteBytes ==
    /\ bs.ph = "open"
    /\ \E absolute \in BOOLEAN, offset \in Offsets, byteLength \in 1..2,
          sized \in BOOLEAN, size \in 0..(BufMaxSize + 1) :
          LET pos == IF absolute THEN offset ELSE bs.cursor
              length == IF sized THEN size ELSE byteLength
              r == writeBytes(bs.buffer, Run([k \in 1..byteLength |-> 9]), pos, length)
          IN  bs' = accessed("writeBytes", pos, length, [err |-> r.err, out |-> << >>], r.buf,
                             IF absolute \/ r.err # "" THEN 0 ELSE length)
    /\ UNCHANGED << yz, rs, ks, cw >>

(* fill(value, size, offset?): writeBytes of a fresh buffer of size bytes. *)
Fill ==
    /\ bs.ph = "open"
    /\ \E absolute \in BOOLEAN, offset \in Offsets, size \in 0..(BufMaxSize + 1) :
          LET pos == IF absolute THEN offset ELSE bs.cursor
              r == fill(bs.buffer, size, pos)
          IN  bs' = accessed("fill", pos, size, [err |-> r.err, out |-> << >>], r.buf,
                             IF absolute \/ r.err # "" THEN 0 ELSE size)
    /\ UNCHANGED << yz, rs, ks, cw >>
(***************************************************************************)
(* N64Crc.recalculate on images of every CIC whose first two checksummed   *)
(* words are drawn from CrcWords.                                          *)
(***************************************************************************)
CrcWords == {<< 0, 0, 0, 0 >>, << 255, 255, 255, 255 >>, << 128, 0, 0, 1 >>, << 0, 0, 0, 31 >>}

CrcImage(bootCode, w, v) ==
    Image(CHECKSUM_OFFSET + CHECKSUM_LENGTH, crcDecompressed, bootCode, << >>,
          At(CHECKSUM_OFFSET, Run(w \o v)))

CrcImages == {CrcImage(bootCode, w, v) : bootCode \in {6101, 6102, 6103, 6105, 6106},
                                         w \in CrcWords, v \in CrcWords}

CrcInit ==
    /\ \E image \in CrcImages :
          bs = [ph |-> "buffer", buffer |-> image, cursor |-> 0, op |-> "new",
                at |-> 0, n |-> 0, out |-> << >>, err |-> ""]
    /\ yz = NoCodec
    /\ rs = NoSession
    /\ cw = NoCompressor
    /\ ks = NoKeys

(* new N64Crc(buffer).recalculate(): n is the boot code _cic finds and out *)
(* the buffer before the call.                                             *)
Recalculate ==
    /\ bs.ph = "buffer"
    /\ LET bootCode == cic(crc32(View(bs.buffer.mem, N64_HEADER_SIZE, N64_BOOT_CODE_SIZE)))
           r == recalculate(bs.buffer, bootCode)
       IN  bs' = [bs EXCEPT !.ph = IF r.err = "" THEN "recalculated" ELSE "failed",
                            !.op = "recalculate", !.n = bootCode, !.at = N64_CRC1_OFFSET,
                            !.out = bs.buffer, !.buffer = r.buf, !.err = r.err]
    /\ UNCHANGED << yz, rs, ks, cw >>
(***************************************************************************)
(* The queries of a Rom: the scan for the DMA table on a buffer, and       *)
(* readDmaRecord and verifyDmaData on a Rom built on an image.             *)
(***************************************************************************)
RomMaxFiles == 2

(* The virtual intervals of the file records: the terminator, three        *)
(* intervals of 16 bytes each 8 bytes after the one before, and an empty   *)
(* interval inside the first.                                              *)
Intervals ==
    {<< 0, 0 >>, << VirtAt(0), VirtAt(0) + 16 >>, << VirtAt(0) + 8, VirtAt(0) + 24 >>,
     << VirtAt(0) + 16, VirtAt(0) + 32 >>, << VirtAt(0) + 8, VirtAt(0) + 8 >>}

FileTables == UNION {[1..n -> Intervals] : n \in 0..RomMaxFiles}

(* The decompressed image whose file records have the intervals t. *)
TableImage(t) ==
    Image(4 * 4096, crcDecompressed, 6102,
          [k \in 1..Len(t) |-> Rec(t[k][1], t[k][2], t[k][1], 0)], EmptyMem)

(* Buffers for the scan: the word 0 followed by the word sig at up to two  *)
(* of the offsets.                                                         *)
ScanOffsets == {4 * DMA_SCAN_FIRST, 4 * DMA_SCAN_FIRST + 4, 4 * DMA_SCAN_FIRST + 16, DMA_SCAN_BOUND}

ScanWords == {<< 0, 0, 16, 96 >>, << 96, 16, 0, 0 >>}

ScanImage(a, b, sig) ==
    Buffer(DMA_SCAN_BOUND + 64, At(a + 4, Run(sig)) @@ At(b + 4, Run(sig)))

ScanImages ==
    {ScanImage(a, b, sig) : a \in ScanOffsets, b \in ScanOffsets, sig \in ScanWords}
        \cup {Buffer(DMA_SCAN_BOUND + 64, EmptyMem)}

RomImages == {TableImage(t) : t \in FileTables} \cup ScanImages

RomInit ==
    /\ \E image \in RomImages :
          bs = [ph |-> "buffer", buffer |-> image, rom |-> << >>, cursor |-> 0, op |-> "new",
                at |-> 0, n |-> 0, out |-> << >>, err |-> ""]
    /\ yz = NoCodec
    /\ rs = NoSession
    /\ cw = NoCompressor
    /\ ks = NoKeys

(* _findDmaTableOffset on the buffer. *)
FindDmaTableOffset ==
    /\ bs.ph = "buffer"
    /\ LET o == findDmaTableOffset(bs.buffer)
       IN  bs' = [bs EXCEPT !.ph = IF o = Undef THEN "failed" ELSE "found",
                            !.op = "findDmaTableOffset", !.out = o,
                            !.err = IF o = Undef THEN "no DMA table found" ELSE ""]
    /\ UNCHANGED << yz, rs, ks, cw >>

(* new Rom(buffer) *)
RomNew ==
    /\ bs.ph = "buffer"
    /\ LET r == newRom(bs.buffer, FALSE, validateRom(bs.buffer))
       IN  bs' = [bs EXCEPT !.ph = IF r.rom.err = "" THEN "rom" ELSE "failed",
                            !.op = "new Rom", !.rom = r.rom, !.buffer = r.buf, !.err = r.rom.err,
                            !.cursor = IF r.rom.err = "" THEN r.rom.dmaOffset + (DMA_INFO_RECORD_INDEX + 1) * DMA_RECORD_SIZE
                                       ELSE 0]
    /\ UNCHANGED << yz, rs, ks, cw >>

(* readDmaRecord(index): at is the offset the cursor is moved to, out the  *)
(* record read from there.                                                 *)
ReadDmaRecord ==
    /\ bs.ph = "rom"
    /\ \E index \in (0 - 2)..(3 + RomMaxFiles + 1) :
          LET r == readDmaRecord(bs.buffer, bs.rom, index)
          IN  bs' = [bs EXCEPT !.ph = IF r.err = "" THEN "record" ELSE "failed",
                               !.op = "readDmaRecord", !.n = index,
                               !.at = bs.rom.dmaOffset + index * DMA_RECORD_SIZE,
                               !.out = r, !.err = r.err,
                               !.cursor = IF r.err = ""
                                          THEN bs.rom.dmaOffset + (index + 1) * DMA_RECORD_SIZE
                                          ELSE @]
    /\ UNCHANGED << yz, rs, ks, cw >>

(* verifyDmaData() *)
VerifyDmaData ==
    /\ bs.ph = "rom"
    /\ LET e == verifyDmaData(bs.buffer, bs.rom)
       IN  bs' = [bs EXCEPT !.ph = IF e = "" THEN "verified" ELSE "failed",
                            !.op = "verifyDmaData", !.err = e]
    /\ UNCHANGED << yz, rs, ks, cw >>
vars == << yz, rs, ks, bs, cw >>

YazNext == YazEncodeToken \/ YazEncodeFinish \/ YazDecodeToken \/ YazDecodeDone

SpecYaz0 == YazInit /\ [][YazNext]_vars

Next ==
    \/ Construct
    \/ InflateBegin \/ InflateRecord
    \/ DeflateBegin \/ DeflateRecord
    \/ PatcherNew \/ PatchBegin \/ PatchDmaEntry \/ PatchBlock \/ PatchReturn
    \/ Chain
    \/ Finish

Spec == Init /\ [][Next]_vars

KeyNext == KeyStep \/ KeyReturn

SpecKey == KeyInit /\ [][KeyNext]_vars

(* patch runs on one thread and nothing interrupts it: the loop of         *)
(* _getNextXorKey takes its next iteration whenever it has one.            *)
SpecKeyLive == KeyInit /\ [][KeyNext]_vars /\ WF_vars(KeyNext)

(* The page and the worker: a task of either is run when it is the next of *)
(* its queue; nothing makes the caller call deflate.                       *)
WorkerNext ==
    \/ Deflate
    \/ WorkerStart \/ WorkerThrow \/ WorkerProgress \/ WorkerFinished
    \/ OnMessage \/ OnError

SpecWorker ==
    /\ WorkerInit /\ [][WorkerNext]_vars
    /\ WF_vars(WorkerStart) /\ WF_vars(WorkerThrow) /\ WF_vars(WorkerProgress)
    /\ WF_vars(WorkerFinished) /\ WF_vars(OnMessage) /\ WF_vars(OnError)

(* The decoder alone, on arbitrary streams. *)
DecNext == YazDecodeToken \/ YazDecodeDone \/ YazDecodeHang

SpecDecode == DecInit /\ [][DecNext]_vars

(* One Reader or Writer access on a small buffer. *)
BufNext ==
    \/ Seek
    \/ ReadUint8 \/ ReadUint16 \/ ReadUint24 \/ ReadUint32 \/ ReadBytes
    \/ WriteUint32 \/ WriteBytes \/ Fill

SpecBuffer == BufInit /\ [][BufNext]_vars

(* The queries of a Rom on small tables. *)
RomNext == FindDmaTableOffset \/ RomNew \/ ReadDmaRecord \/ VerifyDmaData

SpecRom == RomInit /\ [][RomNext]_vars

(* The header checksums of small images. *)
CrcNext == Recalculate

SpecCrc == CrcInit /\ [][CrcNext]_vars

(* The encoder alone, also at the end of inputs longer than the window    *)
(* and of inputs that cannot be compressed.                                *)
EncInit == YazInit \/ FarInit \/ BigInit

EncNext == YazEncodeToken \/ YazEncodeFinish

SpecEncode == EncInit /\ [][EncNext]_vars

(* deflate of one image with every short exclusions list. *)
PolicyNext == Construct \/ DeflateBegin \/ DeflateRecord \/ Finish

SpecPolicy == PolicyInit /\ [][PolicyNext]_vars
Header(buf) == [k \in 1..8 |-> Get(buf.mem, N64_CRC1_OFFSET + k - 1)]

(* The contents of the file a record addresses in a buffer: the bytes at   *)
(* physicalStart when physicalEnd is 0, the decoded bytes of the frame     *)
(* there otherwise.                                                        *)
fileBytes(buf, r) ==
    IF r.physicalEnd = ZERO_WORD
    THEN [k \in 1..(Num(r.virtualEnd) - Num(r.virtualStart)) |->
             Get(buf.mem, Num(r.physicalStart) + k - 1)]
    ELSE ViewSeq(decompressLoop(decompressInit(
             View(buf.mem, Num(r.physicalStart) + 16, buf.size - (Num(r.physicalStart) + 16)),
             View(EmptyMem, 0, Num(r.virtualEnd) - Num(r.virtualStart)),
             Num(r.virtualEnd) - Num(r.virtualStart))).dst)

(* The Rom fields a buffer gives when its signature is not looked at.      *)
located(buf) == romLocate(buf, "", findDmaTableOffset(buf))

(***************************************************************************)
(* C2.  Inflate/deflate round trip: when the output and the exclusions of  *)
(* inflate on a compressed ROM R are handed to deflate, deflate returns a  *)
(* ROM, and for every record that is not null in R the file its record     *)
(* addresses in that ROM has the bytes of the file the same record         *)
(* addresses in R.                                                         *)
(***************************************************************************)
C2_RoundTrip ==
    (rs.ph # "none" /\ rs.kind = "deflate" /\ rs.orig # rs.in0
        /\ validateRom(rs.orig) = "COMPRESSED") =>
        /\ rs.ph # "failed"
        /\ rs.ph = "returned" =>
              \A i \in 0..7 :
                 (belowDmaCount(located(rs.orig), i)
                     /\ readDmaRecord(rs.orig, located(rs.orig), i).physicalEnd # NULL_WORD) =>
                    fileBytes(rs.out, readDmaRecord(rs.out, located(rs.orig), i))
                        = fileBytes(rs.orig, readDmaRecord(rs.orig, located(rs.orig), i))

(***************************************************************************)
(* C3.  Whenever inflate, patch or deflate has returned, the eight bytes   *)
(* at 0x10 of the ROM it returned are the two checksums of that ROM as it  *)
(* is returned.                                                            *)
(***************************************************************************)
C3_ChecksumsCurrent ==
    (rs.ph # "none" /\ rs.ph = "returned") =>
        Header(rs.out) = crcBytes(calculate(rs.out.mem,
                                            cic(crc32(View(rs.out.mem, N64_HEADER_SIZE,
                                                           N64_BOOT_CODE_SIZE)))))

(***************************************************************************)
(* C4.  The input buffer of a transformation holds the bytes it was handed *)
(* with at every point of the transformation, the Rom constructor (which   *)
(* no transformation asks to byte swap) included.                          *)
(***************************************************************************)
C4_InputUnchanged == rs.ph # "none" => rs.in = rs.in0

(* A patch has been applied twice to the same input, writing records,      *)
(* files and blocks to an output that differs from the input.              *)
C4_Witness ==
    /\ rs.ph = "returned" /\ rs.kind = "patch" /\ rs.first # NoBuffer
    /\ rs.writes # {} /\ rs.keys # << >>
    /\ rs.out # rs.in /\ rs.in = rs.in0 /\ rs.in = rs.orig

(* The indices of the table of a Rom, and the records inflate places.      *)
Indices(rom) == {i \in 0..(dmaSize(rom) \div DMA_RECORD_SIZE) : belowDmaCount(rom, i)}

placed(r) ==
    WordLT(r.physicalStart, Word(DECOMPRESSED_ROM_SIZE)) /\ r.physicalEnd # NULL_WORD

(* No file that inflate places has a virtual range that meets the table.   *)
tableClear(buf, rom) ==
    \A j \in Indices(rom) :
        (j > DMA_INFO_RECORD_INDEX /\ placed(readDmaRecord(buf, rom, j))) =>
            \/ Num(readDmaRecord(buf, rom, j).virtualEnd) <= rom.dmaOffset
            \/ Num(readDmaRecord(buf, rom, j).virtualStart) >= rom.dmaOffset + dmaSize(rom)

C6_NonOverlapping ==
    (rs.ph # "none" /\ rs.ph = "returned" /\ verifyDmaData(rs.in0, rs.rom) = "") =>
        verifyDmaData(rs.out, located(rs.out)) = ""

(***************************************************************************)
(* C7.  Every record a transformation writes is written at the offset      *)
(* DMA discovery finds on its input plus 16 times the index, and discovery *)
(* finds the same offset on the ROM it returns.                            *)
(***************************************************************************)
C7_TableOffset ==
    (rs.ph # "none" /\ rs.rom # NoRom) =>
        /\ \A w \in rs.writes :
              w[2] = findDmaTableOffset(rs.in0) + w[1] * DMA_RECORD_SIZE
        /\ rs.ph = "returned" => findDmaTableOffset(rs.out) = findDmaTableOffset(rs.in0)

(***************************************************************************)
(* C8.  A ROM handed over in the 16-bit swapped or in the 32-bit swapped   *)
(* order is brought to the big-endian order before anything else is done:  *)
(* the transformation works on the big-endian ROM and does not fail where  *)
(* it returns for the big-endian ROM.                                      *)
(***************************************************************************)
C8_Orderings ==
    (rs.ph # "none" /\ rs.orig \in {Swapped16(RomA), Swapped32(RomA)}) =>
        /\ rs.ph # "failed"
        /\ rs.ph \notin {"new", "patcher"} => rs.in = RomA

(***************************************************************************)
(* C9.  Every key of a patch is the byte of the input ROM at the address   *)
(* it was found at, whatever was written to the output before, and a       *)
(* second call of patch on the same Patcher and the same input returns the *)
(* bytes the first call returned.                                          *)
(***************************************************************************)
C9_PatchPure ==
    (rs.ph # "none" /\ rs.kind = "patch") =>
        /\ \A k \in 1..Len(rs.keys) : rs.keys[k][2] = Get(rs.in0.mem, rs.keys[k][1])
        /\ (rs.ph = "returned" /\ rs.first # NoBuffer) => rs.out = rs.first

(* The second call has returned, and one of its keys was found at an       *)
(* address where the output of the first call differs from the input.      *)
C9_Witness ==
    /\ rs.ph = "returned" /\ rs.kind = "patch" /\ rs.first # NoBuffer
    /\ rs.out = rs.first
    /\ \E k \in 1..Len(rs.keys) :
          Get(rs.first.mem, rs.keys[k][1]) # Get(rs.in0.mem, rs.keys[k][1])

(***************************************************************************)
(* C10.  Every key _getNextXorKey returns is not 0 and is found at an      *)
(* address of the XOR range, whatever the range and the address it starts  *)
(* from.                                                                   *)
(***************************************************************************)
C10_KeyInRange ==
    ks.ph = "found" =>
        /\ ks.key # 0
        /\ ks.range[1] <= ks.address /\ ks.address <= ks.range[2]

(* The bytes one iteration of the loop of _decompress reads lie inside the *)
(* source: the code byte when no bits are left, then one byte for a        *)
(* literal, two or three for a back-reference.                             *)
readsInside(d) ==
    LET p == IF d.bitCount = 0 THEN d.srcPos + 1 ELSE d.srcPos
        cb == IF d.bitCount = 0 THEN ViewGet(d.src, d.srcPos) ELSE d.cb
    IN  /\ d.bitCount = 0 => d.srcPos < d.src.len
        /\ IF (ToByte(cb) \div 128) % 2 = 1 THEN p < d.src.len
           ELSE /\ p + 1 < d.src.len
                /\ ToByte(ViewGet(d.src, p)) \div 16 = 0 => p + 2 < d.src.len

(* The bytes one iteration writes lie below the declared size. *)
writesInside(d) == decompressStep(d).dstPos <= d.size

(***************************************************************************)
(* C11.  The decoder fails whenever an iteration would read a source byte  *)
(* past the end of the source or write a destination byte at or beyond the *)
(* declared size, and no iteration changes a destination byte at or beyond *)
(* the declared size.                                                      *)
(***************************************************************************)
C11_Malformed ==
    [][yz.phase = "decode" /\ yz.d.dstPos < yz.d.size
         => /\ ~(readsInside(yz.d) /\ writesInside(yz.d)) => yz'.phase = "failed"
            /\ \A k \in yz.d.size..(yz.d.dst.len - 1) :
                   ViewGet(yz'.d.dst, k) = ViewGet(yz.d.dst, k)]_vars

(* The patch ends inside the DMA update record at the cursor: before the   *)
(* two bytes of the index or the terminator, or before the 13 bytes of an  *)
(* entry.                                                                  *)
recordCut(s) ==
    \/ ~fits(s.patch, s.cur, 2)
    \/ readUint16(s.patch, s.cur) # 65535 /\ ~fits(s.patch, s.cur, 13)

(* The patch ends inside the header of the block at the cursor.            *)
blockHeaderCut(s) ==
    IF readUint8(s.patch, s.cur) # 255 THEN ~fits(s.patch, s.cur, 6) ELSE ~fits(s.patch, s.cur, 4)

(* The header of the block at the cursor is whole and fewer payload bytes  *)
(* than its blockSize remain after it.                                     *)
blockPayloadCut(s) ==
    /\ ~blockHeaderCut(s)
    /\ IF readUint8(s.patch, s.cur) # 255
       THEN ~fits(s.patch, s.cur + 6, readUint16(s.patch, s.cur + 4))
       ELSE ~fits(s.patch, s.cur + 4, readUint16(s.patch, s.cur + 2))

(***************************************************************************)
(* C12.  patch fails when the patch ends in the middle of a DMA update     *)
(* record (the terminator included) or in the middle of a data block: the  *)
(* step that meets the cut ends the call with an error, so that no output  *)
(* is returned.                                                            *)
(***************************************************************************)
C12_Truncated ==
    [][/\ rs.ph = "phaseA" /\ recordCut(rs) => rs'.ph = "failed"
       /\ rs.ph = "phaseB" /\ rs.cur < Len(rs.patch)
             /\ (blockHeaderCut(rs) \/ blockPayloadCut(rs)) => rs'.ph = "failed"]_vars

(* C13: a Reader or Writer access (readUint8/16/24/32, readBytes,          *)
(* writeUint32, writeBytes, fill; at an offset or at the cursor) whose     *)
(* byte range [at, at + n) is not inside the buffer ends with a RangeError *)
(* (bounds-error), returns nothing and leaves the buffer as it was.        *)
outside(b) == b.n > 0 /\ ~(b.at >= 0 /\ b.at + b.n <= b.buffer.size)

C13_BoundsError ==
    bs.ph \in {"returned", "failed"} /\ outside(bs)
        => bs.ph = "failed" /\ bs.err = "RangeError" /\ bs.buffer = Counted(bs.buffer.size)

(* C14: readDmaRecord(index) fails with "DMA record index is out of        *)
(* bounds" (index-error) for every index outside [0, dmaCount), negative   *)
(* ones too, and a record it returns was read inside the DMA table.        *)
inTable(b) ==
    b.at >= b.rom.dmaOffset /\ b.at + DMA_RECORD_SIZE <= b.rom.dmaOffset + dmaSize(b.rom)

C14_IndexError ==
    bs.ph \in {"record", "failed"} /\ bs.op = "readDmaRecord"
        => /\ ~(bs.n >= 0 /\ belowDmaCount(bs.rom, bs.n))
                => bs.ph = "failed" /\ bs.err = "DMA record index is out of bounds"
           /\ bs.ph = "record" => inTable(bs)

(* The records verifyDmaData collects, and whether two of them have        *)
(* intervals [virtualStart, virtualEnd) with a byte in common.             *)
live(b) == dmaData(b.buffer, b.rom, 0, << >>).recs

shareByte(r, q) ==
    Max(Num(r.virtualStart), Num(q.virtualStart)) < Min(Num(r.virtualEnd), Num(q.virtualEnd))

shared(recs) == \E i \in 1..Len(recs), j \in 1..Len(recs) : i # j /\ shareByte(recs[i], recs[j])

nonEmpty(recs) == \A i \in 1..Len(recs) : Num(recs[i].virtualStart) < Num(recs[i].virtualEnd)

(* C15 as stated: verifyDmaData fails with "Overlapping DMA data records!" *)
(* exactly when two distinct records before the first (0, 0) record have   *)
(* intervals that share a byte.                                            *)
C15_Iff ==
    bs.op = "verifyDmaData"
        => (bs.err = "Overlapping DMA data records!" <=> shared(live(bs)))

(* C15, amended: verifyDmaData fails whenever two distinct records before  *)
(* the first (0, 0) record share a byte, and, when none of these records   *)
(* is empty, only then; it has no other failure on a table that lies       *)
(* inside the buffer.                                                      *)
C15_Overlap ==
    bs.op = "verifyDmaData"
        => /\ bs.err \in {"", "Overlapping DMA data records!"}
           /\ shared(live(bs)) => bs.err = "Overlapping DMA data records!"
           /\ nonEmpty(live(bs)) /\ bs.err # "" => shared(live(bs))

C15_Witness ==
    /\ bs.op = "verifyDmaData" /\ bs.ph = "failed"
    /\ shared(live(bs)) /\ nonEmpty(live(bs))
    /\ \E k \in 1..(Len(live(bs)) - 1) :
          WordLT(live(bs)[k + 1].virtualStart, live(bs)[k].virtualStart)

(* The 4-byte-aligned offsets o with 0x1060 <= o < 0x01000000 at which the *)
(* buffer holds the big-endian words 0x00000000 and 0x60100000.            *)
pairOffsets(buf) ==
    {o \in {a - 4 : a \in {x \in DOMAIN buf.mem : buf.mem[x] = 96}} :
        /\ o % 4 = 0
        /\ o >= 4 * DMA_SCAN_FIRST
        /\ o < DMA_SCAN_BOUND
        /\ o + 8 <= buf.size
        /\ ReadWord(buf.mem, o) = Word(0)
        /\ ReadWord(buf.mem, o + 4) = << 96, 16, 0, 0 >>}

(* C16: _findDmaTableOffset returns the lowest 4-byte-aligned offset o     *)
(* with 0x1060 <= o < 0x01000000 at which the big-endian words 0x00000000  *)
(* and 0x60100000 are stored, and fails with "no DMA table found" when     *)
(* there is none.                                                          *)
C16_Discovery ==
    bs.op = "findDmaTableOffset"
        => IF pairOffsets(bs.buffer) = {}
           THEN bs.ph = "failed" /\ bs.err = "no DMA table found"
           ELSE /\ bs.ph = "found"
                /\ bs.out \in pairOffsets(bs.buffer)
                /\ \A o \in pairOffsets(bs.buffer) : bs.out <= o

(* The registers t1..t6 after the loop of _calculate on mem, and the two   *)
(* checksums they give in unsigned 32-bit arithmetic.                      *)
registers(mem, bootCode) ==
    calcLoop(mem, checksumWords(mem),
             [t1 |-> seed(bootCode), t2 |-> seed(bootCode), t3 |-> seed(bootCode),
              t4 |-> seed(bootCode), t5 |-> seed(bootCode), t6 |-> seed(bootCode)], bootCode)

finalize(t, bootCode) ==
    CASE bootCode = 6103 -> << AddU(XorU(t.t6, t.t4), t.t3), AddU(XorU(t.t5, t.t2), t.t1) >>
      [] bootCode = 6106 -> << AddU(MulU(t.t6, t.t4), t.t3), AddU(MulU(t.t5, t.t2), t.t1) >>
      [] OTHER -> << XorU(XorU(t.t6, t.t4), t.t3), XorU(XorU(t.t5, t.t2), t.t1) >>

(* C17: for a ROM with a known CIC the eight bytes recalculate stores at   *)
(* 0x10 are crc1 and crc2, big-endian, as unsigned 32-bit arithmetic gives *)
(* them from t1..t6: (t6 * t4 + t3, t5 * t2 + t1) modulo 2^32 for CIC      *)
(* 6106, ((t6 ^ t4) + t3, (t5 ^ t2) + t1) modulo 2^32 for CIC 6103.        *)
C17_Exact ==
    bs.op = "recalculate" /\ bs.n # 0
        => /\ bs.ph = "recalculated"
           /\ Header(bs.buffer) = crcBytes(finalize(registers(bs.out.mem, bs.n), bs.n))

(* The span of source bytes a token <<position, length, match position>>   *)
(* covers: 1 for a literal (length 0).                                     *)
span(tok) == IF tok[2] = 0 THEN 1 ELSE tok[2]

(* A back-reference token is valid on the source src.                      *)
validReference(src, tok) ==
    /\ tok[1] - tok[3] - 1 >= 0
    /\ tok[1] - tok[3] - 1 <= WINDOW_SIZE - 1
    /\ tok[2] >= 3
    /\ tok[2] <= MAX_MATCH
    /\ tok[1] + tok[2] <= src.len
    /\ tok[3] < tok[1]
    /\ \A k \in 0..(tok[2] - 1) : ViewGet(src, tok[3] + k) = ViewGet(src, tok[1] + k)

(* C18: every back-reference the encoder has emitted is valid (distance in *)
(* [0, 0xFFF], length in [3, 0x111] and inside the source, match position  *)
(* before the position, equal bytes), deferred ones included, and every    *)
(* token starts where the one before it ended, srcPos being the end of the *)
(* last one.                                                               *)
C18_ValidTokens ==
    yz.phase = "encode" =>
        /\ \A k \in 1..Len(yz.e.tokens) :
              /\ yz.e.tokens[k][2] # 0 => validReference(yz.e.src, yz.e.tokens[k])
              /\ yz.e.tokens[k][1] = IF k = 1 THEN 0
                                     ELSE yz.e.tokens[k - 1][1] + span(yz.e.tokens[k - 1])
        /\ yz.e.srcPos = IF yz.e.tokens = << >> THEN 0
                         ELSE yz.e.tokens[Len(yz.e.tokens)][1] + span(yz.e.tokens[Len(yz.e.tokens)])

(* A back-reference at the largest distance has been emitted, and one that *)
(* was deferred by the look-ahead.                                         *)
C18_Witness ==
    /\ yz.phase = "encode"
    /\ \E k \in 1..Len(yz.e.tokens) :
          /\ yz.e.tokens[k][2] # 0
          /\ yz.e.tokens[k][1] - yz.e.tokens[k][3] - 1 = WINDOW_SIZE - 1

(* The token an iteration of the encoder has just emitted. *)
emitted(e) == e.tokens[Len(e.tokens)]

(* The look-ahead at position p + 1 wins over the match at p.              *)
deferring(e) ==
    /\ rabinKarp(e.src, e.srcPos).size >= 3
    /\ rabinKarp(e.src, e.srcPos + 1).size >= rabinKarp(e.src, e.srcPos).size + 2

(* C19: when the search at p finds len1 >= 3 and the look-ahead at p + 1   *)
(* finds len2 >= len1 + 2, the iteration emits one literal for p and sets  *)
(* the flag, and the next iteration emits the back-reference (len2, pos2)  *)
(* of the look-ahead, which was stored, and clears the flag; otherwise the *)
(* iteration emits the match (len1, pos1) at p, or a literal when          *)
(* len1 < 3, and leaves the flag clear.                                    *)
C19_LazyOrder ==
    [][yz.phase = "encode" /\ yz'.phase = "encode" =>
          /\ emitted(yz'.e)[1] = yz.e.srcPos
          /\ yz.e.flag = 0 /\ deferring(yz.e) =>
                /\ emitted(yz'.e)[2] = 0
                /\ yz'.e.flag = 1
                /\ yz'.e.size = rabinKarp(yz.e.src, yz.e.srcPos + 1).size
                /\ yz'.e.matchPosition = rabinKarp(yz.e.src, yz.e.srcPos + 1).pos
          /\ yz.e.flag = 0 /\ ~deferring(yz.e) =>
                /\ yz'.e.flag = 0
                /\ IF rabinKarp(yz.e.src, yz.e.srcPos).size >= 3
                   THEN /\ emitted(yz'.e)[2] = rabinKarp(yz.e.src, yz.e.srcPos).size
                        /\ emitted(yz'.e)[3] = rabinKarp(yz.e.src, yz.e.srcPos).pos
                   ELSE emitted(yz'.e)[2] = 0
          /\ yz.e.flag = 1 =>
                /\ yz'.e.flag = 0
                /\ emitted(yz.e)[2] = 0
                /\ emitted(yz'.e)[2] = yz.e.size
                /\ emitted(yz'.e)[3] = yz.e.matchPosition
                /\ emitted(yz'.e)[2] = rabinKarp(yz.e.src, yz.e.srcPos).size
                /\ emitted(yz'.e)[3] = rabinKarp(yz.e.src, yz.e.srcPos).pos]_vars

(* A literal has been emitted for a position where a match of at least 3   *)
(* bytes was found, and after it the longer back-reference of the          *)
(* look-ahead.                                                             *)
C19_Witness ==
    /\ yz.phase = "encode"
    /\ Len(yz.e.tokens) >= 2
    /\ yz.e.flag = 0
    /\ emitted(yz.e)[2] >= 5
    /\ yz.e.tokens[Len(yz.e.tokens) - 1][2] = 0
    /\ rabinKarp(yz.e.src, yz.e.tokens[Len(yz.e.tokens) - 1][1]).size >= 3
    /\ emitted(yz.e)[2] >= rabinKarp(yz.e.src, yz.e.tokens[Len(yz.e.tokens) - 1][1]).size + 2

(* The payload deflate wrote for record j of the session s, out being the  *)
(* output: nothing for an empty or a null record, the file for a copied    *)
(* one, and the frame between physicalStart and physicalEnd for a          *)
(* compressed one.                                                         *)
payloadLength(s, out, j) ==
    LET r == readDmaRecord(s.in, s.rom, j)
        w == readDmaRecord(out, s.rom, j)
    IN  IF r.virtualStart = r.virtualEnd \/ s.ops[j] = NULL THEN 0
        ELSE IF s.ops[j] = COPY THEN Num(r.virtualEnd) - Num(r.virtualStart)
        ELSE Num(w.physicalEnd) - Num(w.physicalStart)

RECURSIVE payloadSum(_, _, _)
payloadSum(s, out, i) ==
    IF i <= DMA_INFO_RECORD_INDEX + 1 THEN 0
    ELSE payloadSum(s, out, i - 1) + payloadLength(s, out, i - 1)

(* C20: an iteration of deflate that does not overflow leaves the output   *)
(* and the physical cursor as they were when the record is empty           *)
(* (virtualStart = virtualEnd); gives a null record physicalStart =        *)
(* physicalEnd = 0xFFFFFFFF and no payload; and gives any other record     *)
(* physicalStart = dmaOffset + dmaSize + the payload lengths of the        *)
(* records from 3 up to it that are not empty.                             *)
C20_Layout ==
    [][rs.ph = "loop" /\ rs.kind = "deflate" /\ rs'.ph = "loop" /\ rs'.i = rs.i + 1 =>
          LET r == readDmaRecord(rs.in, rs.rom, rs.i)
              w == readDmaRecord(rs'.out, rs.rom, rs.i)
          IN  IF r.virtualStart = r.virtualEnd
              THEN rs'.out = rs.out /\ rs'.prev = rs.prev
              ELSE IF rs.ops[rs.i] = NULL
              THEN /\ w.physicalStart = NULL_WORD /\ w.physicalEnd = NULL_WORD
                   /\ rs'.prev = rs.prev
                   /\ rs'.out = writeDmaRecord(rs.out, rs.rom, rs.i, w).buf
              ELSE /\ Num(w.physicalStart)
                        = rs.rom.dmaOffset + dmaSize(rs.rom) + payloadSum(rs, rs'.out, rs.i)
                   /\ rs'.prev = Num(w.physicalStart) + payloadLength(rs, rs'.out, rs.i)]_vars

(* The loop of deflate was left at a record of the table: the write of its *)
(* payload did not fit.                                                     *)
overflowed(s) ==
    /\ s.ph \in {"finish", "returned"} /\ s.kind = "deflate"
    /\ belowDmaCount(s.rom, s.i)

(* The file of record j of the input is in the output where record j of    *)
(* the output says, in the form its operation gives it.                    *)
rewritten(s, j) ==
    LET r == readDmaRecord(s.in0, s.rom, j)
        w == readDmaRecord(s.out, s.rom, j)
    IN  /\ w.virtualStart = r.virtualStart /\ w.virtualEnd = r.virtualEnd
        /\ IF s.ops[j] = NULL THEN w.physicalStart = NULL_WORD /\ w.physicalEnd = NULL_WORD
           ELSE /\ Num(w.physicalStart) >= s.rom.dmaOffset + dmaSize(s.rom)
                /\ IF s.ops[j] = COPY THEN w.physicalEnd = r.physicalEnd
                   ELSE /\ WordLT(w.physicalStart, w.physicalEnd)
                        /\ Num(w.physicalEnd) <= COMPRESSED_ROM_SIZE
                /\ fileBytes(s.out, w) = fileBytes(s.in0, r)

(* The length of the payload the iteration of deflate on record i is to    *)
(* write: the file itself when it is copied, its frame when compressed.    *)
payloadToWrite(s) ==
    LET r == readDmaRecord(s.in, s.rom, s.i)
    IN  IF s.ops[s.i] = COPY THEN Num(r.virtualEnd) - Num(r.virtualStart)
        ELSE Len(Yaz0Compress(View(s.in.mem, Num(r.virtualStart),
                                   Num(r.virtualEnd) - Num(r.virtualStart))).result)

(* The iteration of deflate on record i is to write a payload that does    *)
(* not fit in the output.                                                  *)
overflowing(s) ==
    /\ s.ph = "loop" /\ s.kind = "deflate" /\ belowDmaCount(s.rom, s.i)
    /\ readDmaRecord(s.in, s.rom, s.i).err = ""
    /\ WordLT(readDmaRecord(s.in, s.rom, s.i).virtualStart,
              readDmaRecord(s.in, s.rom, s.i).virtualEnd)
    /\ Num(readDmaRecord(s.in, s.rom, s.i).virtualEnd) <= s.in.size
    /\ s.i \in DOMAIN s.ops /\ s.ops[s.i] \in {COPY, COMPRESS}
    /\ s.prev + payloadToWrite(s) > COMPRESSED_ROM_SIZE

(* What holds of a deflate that left its loop at record i.                 *)
stoppedAt(s) ==
    /\ s.out.size = COMPRESSED_ROM_SIZE
    /\ \A j \in Indices(s.rom) :
          IF j >= s.i \/ j <= DMA_INFO_RECORD_INDEX
          THEN readDmaRecord(s.out, s.rom, j) = readDmaRecord(s.in0, s.rom, j)
          ELSE readDmaRecord(s.in0, s.rom, j).virtualStart
                  # readDmaRecord(s.in0, s.rom, j).virtualEnd => rewritten(s, j)
    /\ s.ph = "returned" =>
          Header(s.out) = crcBytes(calculate(s.out.mem,
                                             cic(crc32(View(s.out.mem, N64_HEADER_SIZE,
                                                            N64_BOOT_CODE_SIZE)))))

(***************************************************************************)
(* C21.  When the payload of record k does not fit in the 32 MiB output    *)
(* (of a ROM whose boot code is known), deflate does not fail: the         *)
(* iteration leaves the loop at k, every record before k that is not       *)
(* empty has its rewritten physical addresses and its file there, record k *)
(* and every later record are as in the input table, and the call returns  *)
(* a buffer of 32 MiB whose checksums are recalculated.                    *)
(***************************************************************************)
C21_Overflow ==
    [][/\ overflowing(rs) => rs'.ph = "finish" /\ rs'.i = rs.i
       /\ (rs.ph = "finish" /\ rs.kind = "deflate"
              /\ cic(crc32(View(rs.out.mem, N64_HEADER_SIZE, N64_BOOT_CODE_SIZE))) # 0) =>
             rs'.ph = "returned" /\ rs'.i = rs.i
       /\ overflowed(rs') => stoppedAt(rs')]_vars

(* deflate has returned after it left its loop at a record that follows    *)
(* one it compressed, with the first bytes of the payload that did not fit *)
(* at the end of the output.                                               *)
C21_Witness ==
    /\ rs.ph = "returned" /\ overflowed(rs)
    /\ rs.i > DMA_INFO_RECORD_INDEX + 1
    /\ rs.ops[rs.i - 1] = COMPRESS /\ rewritten(rs, rs.i - 1)
    /\ rs.prev < COMPRESSED_ROM_SIZE
    /\ \E a \in DOMAIN rs.out.mem : a >= rs.prev

(* The positions of the entries of an exclusions list that name index i    *)
(* of a table of n records, and the mode the last of them gives it.        *)
naming(excl, i) == {k \in 1..Len(excl) : excl[k] = i \/ excl[k] = 0 - i}

modeOf(excl, i) ==
    IF naming(excl, i) = {} THEN COMPRESS
    ELSE LET k == CHOOSE x \in naming(excl, i) : \A y \in naming(excl, i) : y <= x
         IN  IF excl[k] = i THEN COPY ELSE NULL

(***************************************************************************)
(* C22.  For every exclusions list the operation of every index i >= 3 of  *)
(* the table is the one the last entry e with |e| = i gives it (copy when  *)
(* e = i, null when e = -i), compress when there is none; the file of the  *)
(* record is stored in that form; entries with |e| > dmaCount - 1 change   *)
(* no operation; and records 0..2 of the output are those of the input.    *)
(***************************************************************************)
C22_Policy ==
    (rs.ph # "none" /\ rs.kind = "deflate" /\ rs.ph \in {"loop", "finish", "returned"}) =>
        /\ DOMAIN rs.ops = Indices(rs.rom)
        /\ \A i \in Indices(rs.rom) : i > DMA_INFO_RECORD_INDEX => rs.ops[i] = modeOf(rs.excl, i)
        /\ \A i \in Indices(rs.rom) :
              i <= DMA_INFO_RECORD_INDEX =>
                 readDmaRecord(rs.out, rs.rom, i) = readDmaRecord(rs.in0, rs.rom, i)
        /\ \A i \in Indices(rs.rom) :
              (i > DMA_INFO_RECORD_INDEX /\ i < rs.i
                  /\ readDmaRecord(rs.in0, rs.rom, i).virtualStart
                        # readDmaRecord(rs.in0, rs.rom, i).virtualEnd) => rewritten(rs, i)

(* deflate has returned with a file it copied and one it left out, on a    *)
(* list with two entries for the same index, the second of which decided,  *)
(* and an entry for an index below 3.                                      *)
C22_Witness ==
    /\ rs.ph = "returned" /\ rs.kind = "deflate"
    /\ \E i \in Indices(rs.rom) :
          /\ i > DMA_INFO_RECORD_INDEX
          /\ \E k \in naming(rs.excl, i), l \in naming(rs.excl, i) :
                k < l /\ rs.excl[k] # rs.excl[l] /\ rs.ops[i] = modeOf(rs.excl, i)
          /\ rewritten(rs, i)

(* The entry of the DMA update table at the cursor of the patch.           *)
entryAt(s) ==
    [dmaIndex |-> readUint16(s.patch, s.cur), fromFile |-> readUint32(s.patch, s.cur + 2),
     start |-> Num(readUint32(s.patch, s.cur + 6)), size |-> readUint24(s.patch, s.cur + 10)]

(* The first index of the table of the input whose record has the virtual  *)
(* start key.                                                              *)
keyed(s, key) ==
    CHOOSE i \in Indices(s.rom) :
        /\ readDmaRecord(s.in0, s.rom, i).virtualStart = key
        /\ \A j \in Indices(s.rom) :
              readDmaRecord(s.in0, s.rom, j).virtualStart = key => i <= j

(* The bytes the file of an entry is to hold: those of the input at        *)
(* fromFile, as many as the smaller of size and the physicalStart of the   *)
(* record keyed by fromFile, then 0; all 0 when fromFile is 0xFFFFFFFF.    *)
entryFile(s, e) ==
    [k \in 1..e.size |->
        IF e.fromFile = NULL_WORD THEN 0
        ELSE IF WordLT(Word(k - 1), readDmaRecord(s.in0, s.rom, keyed(s, e.fromFile)).physicalStart)
        THEN Get(s.in0.mem, Num(e.fromFile) + k - 1)
        ELSE 0]

(***************************************************************************)
(* C23.  Phase A of patch takes the entries of the DMA update table in     *)
(* order up to the first dmaIndex 0xFFFF, which changes nothing; after an  *)
(* entry (dmaIndex, fromFile, start, size) is processed, record dmaIndex   *)
(* of the table of the output is (start, start + size, start, 0) and the   *)
(* size bytes of the output at start are the file of the entry.            *)
(***************************************************************************)
C23_PhaseA ==
    [][(rs.ph = "phaseA" /\ rs'.ph \in {"phaseA", "phaseB"}) =>
          IF readUint16(rs.patch, rs.cur) = 65535
          THEN rs'.ph = "phaseB" /\ rs'.out = rs.out /\ rs'.cur = rs.cur + 2
          ELSE /\ rs'.ph = "phaseA" /\ rs'.cur = rs.cur + 13
               /\ readRecordAt(rs'.out, rs.rom.dmaOffset + entryAt(rs).dmaIndex * DMA_RECORD_SIZE)
                     = [err |-> "", virtualStart |-> Word(entryAt(rs).start),
                        virtualEnd |-> Word(entryAt(rs).start + entryAt(rs).size),
                        physicalStart |-> Word(entryAt(rs).start), physicalEnd |-> ZERO_WORD]
               /\ [k \in 1..entryAt(rs).size |-> Get(rs'.out.mem, entryAt(rs).start + k - 1)]
                     = entryFile(rs, entryAt(rs))]_vars

(* The block at the cursor of the patch: the keys it skips, its size, the  *)
(* place of its bytes in the patch and the bytes that are there.           *)
blockAt(s) ==
    IF readUint8(s.patch, s.cur) # 255
    THEN [new |-> TRUE, keySkip |-> 0, blockSize |-> readUint16(s.patch, s.cur + 4),
          at |-> s.cur + 6]
    ELSE [new |-> FALSE, keySkip |-> readUint8(s.patch, s.cur + 1),
          blockSize |-> readUint16(s.patch, s.cur + 2), at |-> s.cur + 4]

(* The positions among the first n of block b whose source byte is not 0.  *)
nonZero(s, b, n) ==
    {k \in 1..Min(n, Len(s.patch) - b.at) : s.patch[b.at + k] # 0}

(* The keys drawn up to the j-th are the keystream of the input: each is   *)
(* the first byte that is not 0 after the address of the one before it     *)
(* (the XOR address of the patch for the first), in the XOR range.         *)
keystream(s, keys, j) ==
    LET x == getNextXorKey(s.in0, IF j = 1 THEN s.conf.xorAddress ELSE keys[j - 1][1],
                           s.conf.xorRange, {})
    IN  x.err = "" /\ keys[j] = << x.address, x.key >>

(***************************************************************************)
(* C24.  Phase B of patch: in every block a source byte 0 is stored as 0   *)
(* and draws no key, and every other source byte s is stored as s xor the  *)
(* next key of the keystream, which goes on from block to block; the keys  *)
(* a block draws are as many as its keySkip and its source bytes that are  *)
(* not 0.  With the XOR range 0x100..0x102, the XOR address 0x100 and the  *)
(* ROM bytes 22 11 00 there, the block 05 00 06 is stored as 14 00 24.     *)
(***************************************************************************)
C24_Decoding ==
    [][(rs.ph = "phaseB" /\ rs'.ph = "phaseB" /\ rs'.cur # rs.cur) =>
          LET b == blockAt(rs)
              at == rs'.blockStart - b.blockSize
          IN  /\ Len(rs'.keys) - Len(rs.keys)
                    = b.keySkip + Cardinality(nonZero(rs, b, b.blockSize))
              /\ \A j \in (Len(rs.keys) + 1)..Len(rs'.keys) : keystream(rs, rs'.keys, j)
              /\ \A k \in 1..Min(b.blockSize, Len(rs.patch) - b.at) :
                    Get(rs'.out.mem, at + k - 1)
                       = IF rs.patch[b.at + k] = 0 THEN 0
                         ELSE xor8(rs.patch[b.at + k],
                                   rs'.keys[Len(rs.keys) + b.keySkip
                                            + Cardinality(nonZero(rs, b, k))][2])
              /\ (rs.patch = PatchExample /\ rs.in0 = DecKeys) =>
                    [k \in 1..3 |-> Get(rs'.out.mem, at + k - 1)] = << 20, 0, 36 >>]_vars

(* The byte the k-th position of block b is to hold, keys being the keys   *)
(* drawn up to the end of the block and n the number drawn before it; a    *)
(* position the patch has no byte for holds the key drawn for it.          *)
decoded(s, keys, n, b, k) ==
    IF k > Len(s.patch) - b.at THEN keys[n + b.keySkip + Cardinality(nonZero(s, b, k)) + k
                                         - (Len(s.patch) - b.at)][2]
    ELSE IF s.patch[b.at + k] = 0 THEN 0
    ELSE xor8(s.patch[b.at + k], keys[n + b.keySkip + Cardinality(nonZero(s, b, k))][2])

(* Where the block at the cursor is to be written: at the start it         *)
(* declares, a continuation block after the last byte of the block before  *)
(* it.                                                                     *)
placeOf(s) ==
    IF blockAt(s).new THEN Num(readUint32(s.patch, s.cur)) ELSE s.blockStart

(***************************************************************************)
(* C25.  Phase B of patch starts when Phase A has ended and no entry is    *)
(* processed after it; it takes the blocks in the order of the stream; a   *)
(* block whose first byte is not 0xFF is written at the start it declares  *)
(* and a continuation block right after the last byte of the block written *)
(* before it (at 0 when there is none), whatever Phase A or an earlier     *)
(* block left there, and nothing else of the output changes.               *)
(***************************************************************************)
C25_Placement ==
    [][/\ (rs.ph = "phaseA" /\ rs'.ph = "phaseB") =>
             rs'.blockStart = 0 /\ readUint16(rs.patch, rs.cur) = 65535
       /\ rs.ph = "phaseB" => rs'.ph # "phaseA"
       /\ (rs.ph = "phaseB" /\ rs'.ph = "phaseB") =>
             LET b == blockAt(rs)
             IN  /\ rs'.cur = b.at + b.blockSize
                 /\ rs'.blockStart = placeOf(rs) + b.blockSize
                 /\ \A k \in 1..b.blockSize :
                       Get(rs'.out.mem, placeOf(rs) + k - 1)
                          = decoded(rs, rs'.keys, Len(rs.keys), b, k)
                 /\ \A a \in DOMAIN rs.out.mem \cup DOMAIN rs'.out.mem :
                       (a < placeOf(rs) \/ a >= placeOf(rs) + b.blockSize) =>
                          Get(rs'.out.mem, a) = Get(rs.out.mem, a)]_vars

(* The patch is applied whose entry copied the file 01 02 03 04 05 06 00   *)
(* 00 and whose block and continuation block were then written from its    *)
(* third byte on: the bytes of the blocks are there, between those of the  *)
(* file.                                                                   *)
C25_Witness ==
    /\ rs.ph = "phaseB" /\ rs.patch = PatchLayered /\ rs.cur >= Len(rs.patch)
    /\ rs.blockStart = VirtAt(4) + 5
    /\ Len(rs.keys) = 3
    /\ [k \in 1..8 |-> Get(rs.out.mem, VirtAt(4) + k - 1)]
          = << 1, 2, xor8(17, rs.keys[1][2]), 0, xor8(34, rs.keys[3][2]), 6, 0, 0 >>

(***************************************************************************)
(* C26.  The transient buffer of srcSize + BUFFER_EXTRA_BYTES bytes is     *)
(* large enough for every input: every byte the encoder stores is inside   *)
(* the buffer, the frame length is at most the length of the buffer and    *)
(* the result is constructed.                                              *)
(***************************************************************************)
C26_Headroom ==
    /\ yz.phase # "encodeFailed"
    /\ (yz.phase = "encode" /\ yz.e.srcPos > 0) =>
          /\ yz.e.dstPos <= yz.e.dst.len
          /\ yz.e.cbPos < yz.e.dst.len
          /\ yz.e.srcPos >= yz.e.src.len =>
                outSize(yz.e.dstPos) <= yz.e.src.len + BUFFER_EXTRA_BYTES

(* The transformation was handed what the transformation before it         *)
(* returned, with the checksums of that ROM at 0x10.                       *)
handedOn(s) ==
    /\ s.in0 # s.orig
    /\ Header(s.in0) = crcBytes(calculate(s.in0.mem,
                                          cic(crc32(View(s.in0.mem, N64_HEADER_SIZE,
                                                         N64_BOOT_CODE_SIZE)))))

(***************************************************************************)
(* C27.  Pipeline composability: a ROM that a transformation returned with *)
(* its checksums recomputed is accepted by the Rom constructor of the      *)
(* transformation it is handed to, so inflate, patch, deflate in sequence  *)
(* never ends with "Not a valid ROM.".                                     *)
(***************************************************************************)
C27_Composable ==
    (rs.ph # "none" /\ handedOn(rs)) =>
        ~(rs.ph = "failed" /\ rs.err = "Not a valid ROM.")

(* The configuration of a patch whose XOR range is not empty and whose XOR *)
(* address is inside it.                                                   *)
properRange(k) ==
    /\ k.range[1] < k.range[2]
    /\ k.start \in k.range[1]..k.range[2]

(***************************************************************************)
(* C28.  Every call of patch terminates: with an XOR range that is not     *)
(* empty and an XOR address inside it, every search for an XOR key ends    *)
(* after finitely many address steps, with a key or with a throw, so the   *)
(* keys that the blocks of a patch ask for are all drawn in the end.       *)
(***************************************************************************)
C28_Terminates ==
    (ks.ph = "scan" /\ properRange(ks)) => <>(ks.ph \in {"done", "failed"})

(* Record i of the table is that of a null file; a record is the null one. *)
nullFile(buf, rom, i) == readDmaRecord(buf, rom, i).physicalEnd = NULL_WORD

stillNull(r) == r.physicalStart = NULL_WORD /\ r.physicalEnd = NULL_WORD

(***************************************************************************)
(* C29.  Null files stay null through the round trip: inflate leaves the   *)
(* record of a null file as it is and does not list it in its exclusions;  *)
(* deflate on what inflate returned for a compressed ROM returns; and in   *)
(* what deflate returns the record of a file that was null in its input    *)
(* and that no exclusion names has physicalStart = physicalEnd =           *)
(* 0xFFFFFFFF.                                                             *)
(***************************************************************************)
C29_NullStays ==
    /\ (rs.ph = "returned" /\ rs.kind = "inflate") =>
          \A i \in Indices(rs.rom) :
             (i > DMA_INFO_RECORD_INDEX /\ nullFile(rs.in0, rs.rom, i)) =>
                /\ readDmaRecord(rs.out, rs.rom, i) = readDmaRecord(rs.in0, rs.rom, i)
                /\ \A k \in 1..Len(rs.exclusions) : rs.exclusions[k] # i
    /\ (rs.ph # "none" /\ rs.kind = "deflate" /\ rs.in0 # rs.orig
           /\ validateRom(rs.orig) = "COMPRESSED") => rs.ph # "failed"
    /\ (rs.ph = "returned" /\ rs.kind = "deflate") =>
          \A i \in Indices(rs.rom) :
             (i > DMA_INFO_RECORD_INDEX /\ nullFile(rs.in0, rs.rom, i)
                 /\ naming(rs.excl, i) = {}) =>
                stillNull(readDmaRecord(rs.out, rs.rom, i))

(* Promise p is resolved, and settled. *)
resolved(c, p) == p <= Len(c.promises) /\ c.promises[p].state = "resolved"

settled(c, p) == p <= Len(c.promises) /\ c.promises[p].state # "pending"

(* The Progress messages of request p have all been handled by the time    *)
(* its Finished message is: none is handled after it, waits in the queue   *)
(* or is still to be posted.                                               *)
progressFirst(c, p) ==
    \A f \in 1..Len(c.delivered) :
       (c.delivered[f].type = "Finished" /\ c.delivered[f].req = p) =>
          /\ \A k \in (f + 1)..Len(c.delivered) :
                ~(c.delivered[k].type = "Progress" /\ c.delivered[k].req = p)
          /\ \A k \in 1..Len(c.outbox) :
                ~(c.outbox[k].type = "Progress" /\ c.outbox[k].req = p)
          /\ c.running.req # p

(***************************************************************************)
(* C30.  Every promise that deflate returned is settled in the end, a      *)
(* promise that is resolved was resolved by the Finished message of its    *)
(* own StartCompression request, and the Progress messages of a request    *)
(* are handled before its Finished message, also when deflate is called    *)
(* again before the request before it has finished.                        *)
(***************************************************************************)
C30_OwnFinished ==
    /\ [](cw.ph = "run" =>
             \A p \in 1..MaxCalls :
                /\ resolved(cw, p) => cw.promises[p].by = p
                /\ progressFirst(cw, p))
    /\ \A p \in 1..MaxCalls :
          [](cw.ph = "run" /\ Len(cw.promises) >= p => <>settled(cw, p))
====
